---- MODULE Spec2Model ----
(***************************************************************************)
(* Model of treeomics/plots/plots.py: the mutation-table renderers hinton, *)
(* create_incompatible_mp_table and clustered_table, and the label         *)
(* formatter _format_gene_name.                                            *)
(*                                                                         *)
(* One call of one function is one behaviour: Init draws the arguments of  *)
(* the call, the function's action computes everything the call draws,     *)
(* writes and returns.  Python lists are sequences; Python indices are     *)
(* kept 0-based in the values (At reads a list at a Python index).         *)
(* Strings are sequences of one-character strings.                         *)
(***************************************************************************)
EXTENDS Integers, Sequences, FiniteSets, TLC

VARIABLES pc, call, fig

vars == <<pc, call, fig>>

(***************************************************************************)
(* Bounds of the model.                                                    *)
(***************************************************************************)
\* most mutations (rows of data) in a call
MaxMut == 3
\* most samples (entries of one mutation's state vector)
MaxS == 3
\* longest displayed_mutations list a caller passes
MaxDisp == 3
\* largest call: cells of data + entries of the optional arguments
MaxInput == 6
\* most samples of the two-mutation tables drawn with default arguments
MaxPairS == 2
\* longest gene name handed to _format_gene_name
MaxNameLen == 7
\* largest max_length handed to _format_gene_name
MaxMaxLength == 8
\* read counts and coverages run from 0 up to these, next to the marked values
MaxReads == 3
MaxCov == 3

(***************************************************************************)
(* Python values.                                                          *)
(***************************************************************************)
None == [given |-> FALSE]

Some(v) == [given |-> TRUE, val |-> v]

\* the position a Python index names: a negative index counts from the end
Norm(list, idx) == IF idx < 0 THEN Len(list) + idx ELSE idx

\* list[idx] does not raise IndexError
InRange(list, idx) == idx >= -Len(list) /\ idx < Len(list)

At(list, idx) == list[Norm(list, idx) + 1]

Range(n) == [i \in 1..n |-> i - 1]

Reversed(list) == [i \in 1..Len(list) |-> list[Len(list) + 1 - i]]

Seqs(S, lo, hi) == UNION {[1..n -> S] : n \in lo..hi}

Pow(b, e) == b ^ e

Occurrences(list, x) == Cardinality({i \in 1..Len(list) : list[i] = x})

\* terms[0] + terms[1] + ... : what a loop of += accumulates
SumOf(terms) ==
    LET RECURSIVE S(_)
        S(i) == IF i = 0 THEN 0 ELSE At(terms, i - 1) + S(i - 1)
    IN S(Len(terms))

\* an optional argument's number of entries (0 when it is left at None)
Entries(opt) == IF opt.given THEN Len(opt.val) ELSE 0

\* None, or a list over S of at most maxlen entries
OptLists(S, maxlen) == {None} \cup {Some(l) : l \in Seqs(S, 0, maxlen)}

Min(a, b) == IF a < b THEN a ELSE b

\* code points of the characters that occur in names
Ord(c) ==
    CASE c = " " -> 32 [] c = "\"" -> 34 [] c = "," -> 44 [] c = "1" -> 49
      [] c = "A" -> 65 [] c = "B" -> 66 [] c = "C" -> 67 [] c = "D" -> 68
      [] c = "E" -> 69 [] c = "R" -> 82 [] c = "X" -> 88 [] c = "_" -> 95
      [] c = "a" -> 97 [] c = "b" -> 98 [] c = "c" -> 99 [] c = "d" -> 100
      [] c = "e" -> 101 [] c = "f" -> 102 [] c = "i" -> 105 [] c = "m" -> 109
      [] c = "o" -> 111 [] c = "r" -> 114 [] c = "s" -> 115 [] c = "x" -> 120

Ords(s) == [i \in 1..Len(s) |-> Ord(s[i])]

\* str.lower() on the characters that occur in names
LowerChar(c) ==
    CASE c = "A" -> "a" [] c = "B" -> "b" [] c = "C" -> "c" [] c = "D" -> "d"
      [] c = "E" -> "e" [] c = "R" -> "r" [] c = "X" -> "x" [] OTHER -> c

Lower(s) == [i \in 1..Len(s) |-> LowerChar(s[i])]

\* str.replace(old, new) for a one-character old: every occurrence
Replace(s, old, new) ==
    LET RECURSIVE R(_)
        R(i) == IF i > Len(s) THEN <<>>
                ELSE (IF s[i] = old THEN new ELSE <<s[i]>>) \o R(i + 1)
    IN R(1)

\* str.find(ch, start): the Python index of the first ch at or after start, or -1
Find(s, ch, start) ==
    LET hits == {i \in 0..(Len(s) - 1) : i >= start /\ At(s, i) = ch}
    IN IF hits = {} THEN -1 ELSE CHOOSE i \in hits : \A j \in hits : i <= j

\* s[:n]: a negative n counts from the end, and the stop is clamped to the string
Prefix(s, n) ==
    LET stop == IF n < 0 THEN Len(s) + n ELSE n
    IN SubSeq(s, 1, IF stop < 0 THEN 0 ELSE IF stop < Len(s) THEN stop ELSE Len(s))

(***************************************************************************)
(* sorted(list, key=...): Python compares the key tuples lexicographically *)
(* and keeps equal keys in their order in the list.  A key is a sequence   *)
(* of integers (a string is the sequence of its code points).              *)
(***************************************************************************)
KeyLess(a, b) ==
    \E i \in 1..(Len(a) + 1) :
        /\ \A j \in 1..(i - 1) : j <= Len(b) /\ a[j] = b[j]
        /\ i <= Len(b)
        /\ (i > Len(a) \/ a[i] < b[i])

SortedByKey(list, keys) ==
    LET n == Len(list)
        rank(i) == Cardinality({j \in 1..n : \/ KeyLess(keys[j], keys[i])
                                             \/ (keys[j] = keys[i] /\ j < i)}) + 1
    IN [r \in 1..n |-> list[CHOOSE i \in 1..n : rank(i) = r]]

(***************************************************************************)
(* utils.int_settings: the two sentinels of the ambiguous states.          *)
(***************************************************************************)
POS_UNKNOWN == -1

NEG_UNKNOWN == -2

\* the values a cell of the state matrix takes: present, absent, the two sentinels
StateValues == {1, 0, POS_UNKNOWN, NEG_UNKNOWN}

(***************************************************************************)
(* _format_gene_name                                                       *)
(***************************************************************************)
CommaFrom == 6

\* the bug of removing only the first space
RemoveSpaces_FirstOnly(gene_name) ==
    LET first == Find(gene_name, " ", 0)
    IN IF first = -1 THEN gene_name
       ELSE SubSeq(gene_name, 1, first) \o SubSeq(gene_name, first + 2, Len(gene_name))

RemoveSpaces(gene_name) == Replace(gene_name, " ", <<>>)

RemoveQuotes(gene_name) == Replace(gene_name, "\"", <<>>)

\* the bug of looking for the comma from the start of the name
ShortenAtComma_FromStart(gene_name, max_length) ==
    IF Len(gene_name) > max_length - 4 /\ Find(gene_name, ",", 0) # -1
    THEN Prefix(gene_name, Find(gene_name, ",", 0))
    ELSE gene_name

ShortenAtComma(gene_name, max_length) ==
    IF Len(gene_name) > max_length - 4 /\ Find(gene_name, ",", CommaFrom) # -1
    THEN Prefix(gene_name, Find(gene_name, ",", CommaFrom))
    ELSE gene_name

CutToMaxLength(gene_name, max_length) ==
    IF Len(gene_name) > max_length THEN Prefix(gene_name, max_length) ELSE gene_name

FormatGeneName(gene_name, max_length) ==
    CutToMaxLength(ShortenAtComma(RemoveQuotes(RemoveSpaces(gene_name)), max_length),
                   max_length)

\* lines 646-648: the records one call writes to the log
FormatGeneNameLog(gene_name, max_length) ==
    LET stripped == RemoveQuotes(RemoveSpaces(gene_name))
    IN IF Len(stripped) > max_length - 4 /\ Find(stripped, ",", CommaFrom) # -1
       THEN <<"debug">>
       ELSE <<>>

\* the records of the calls made for names[0], names[1], ... in that order
FormatGeneNameLogs(names, max_length) ==
    LET RECURSIVE Upto(_)
        Upto(k) == IF k = 0 THEN <<>>
                   ELSE Upto(k - 1) \o FormatGeneNameLog(names[k], max_length)
    IN Upto(Len(names))

(***************************************************************************)
(* The state of one call: pc is "call" before the function runs and "done" *)
(* after it returned or raised; call holds the arguments; fig holds what   *)
(* the call left behind (patches and texts added to the axes, files        *)
(* written, log records, the value returned, whether it raised).  The       *)
(* tables leave cells, rectangles and row and column texts; the other      *)
(* figures leave texts, the points handed to plt.scatter and the segments  *)
(* handed to plt.plot.                                                     *)
(***************************************************************************)
NoFigure ==
    [created |-> FALSE, cells |-> {}, maf_rects |-> {}, cov_rects |-> {}, overlays |-> {},
     row_texts |-> {}, col_texts |-> {}, texts |-> {}, points |-> <<>>, lines |-> <<>>,
     saved |-> {}, log |-> <<>>, raised |-> FALSE, exception |-> "None",
     priorities |-> <<>>, ret |-> None]

\* the characters gene names are drawn from
NameChars == {"A", ",", " ", "\""}

\* the gene name of scenario C: BRCA1, isoform "X"
BRCA1Isoform ==
    <<"B", "R", "C", "A", "1", ",", " ", "i", "s", "o", "f", "o", "r", "m", " ", "\"", "X", "\"">>

InitFormat ==
    /\ pc = "call"
    /\ fig = NoFigure
    /\ \/ \E gene_name \in Seqs(NameChars, 0, MaxNameLen), max_length \in 0..MaxMaxLength :
              call = [fn |-> "_format_gene_name", gene_name |-> gene_name,
                      max_length |-> max_length]
       \/ call = [fn |-> "_format_gene_name", gene_name |-> BRCA1Isoform, max_length |-> 12]

FormatGeneNameCall ==
    /\ pc = "call"
    /\ call.fn = "_format_gene_name"
    /\ fig' = [fig EXCEPT
                 !.log = FormatGeneNameLog(call.gene_name, call.max_length),
                 !.ret = Some(FormatGeneName(call.gene_name, call.max_length))]
    /\ pc' = "done"
    /\ UNCHANGED call

SpecFormat == InitFormat /\ [][FormatGeneNameCall]_vars

(***************************************************************************)
(* Arguments of the table renderers.                                       *)
(***************************************************************************)
\* the sample names a caller declares, in declared order
SampleNames(n) == SubSeq(<<<<"A">>, <<"B">>, <<"C">>, <<"D">>, <<"E">>>>, 1, n)

\* the gene names mutations carry
GeneNames == {<<"a">>, <<"B">>, <<"b">>}

\* the length of the longest state vector: the inner loops run over
\* range(len(data[mut_idx])), vector by vector
LongestRow(data) ==
    IF data = <<>> THEN 0
    ELSE CHOOSE n \in {Len(data[m]) : m \in 1..Len(data)} :
             \A m \in 1..Len(data) : Len(data[m]) <= n

\* a state matrix of nm mutations over s samples
RectData(nm, s) == [1..nm -> [1..s -> StateValues]]

\* the matrix with its last mutation's vector one sample short
ShortLast(data) == [data EXCEPT ![Len(data)] = SubSeq(@, 1, Len(@) - 1)]

(***************************************************************************)
(* hinton                                                                  *)
(***************************************************************************)
HintonHeight == 4

HintonWidth == 2

HintonYSpacing == 1

HintonLabelXPos == -2

HintonLabelYPos == 0

HintonMaxLength == 12

HintonPriorityBase == 4

\* lines 65-73: the weight a state adds at its position
HintonWeight(maf) ==
    IF maf > 0 THEN 3
    ELSE IF maf = POS_UNKNOWN THEN 1
    ELSE IF maf = NEG_UNKNOWN THEN 1
    ELSE 0

\* the bug of giving the last sample the most significant digit
HintonRowPriority_LastSampleFirst(row) ==
    SumOf([n \in 1..Len(row) |->
               LET sa_idx == n - 1
               IN HintonWeight(At(row, sa_idx)) * Pow(HintonPriorityBase, sa_idx)])

\* lines 64-73: what one pass over a mutation's vector adds to its priority
HintonRowPriority(row) ==
    SumOf([n \in 1..Len(row) |->
               LET sa_idx == n - 1
               IN HintonWeight(At(row, sa_idx))
                      * Pow(HintonPriorityBase, Len(row) - sa_idx - 1)])

\* lines 62-73: the priorities list after the loop over displayed_mutations
HintonPriorities(data, displayed_mutations) ==
    LET RECURSIVE After(_)
        After(k) ==
            IF k = 0 THEN [i \in 1..Len(data) |-> 0]
            ELSE LET mut_idx == displayed_mutations[k]
                 IN [After(k - 1) EXCEPT ![Norm(data, mut_idx) + 1] =
                                      @ + HintonRowPriority(At(data, mut_idx))]
    IN After(Len(displayed_mutations))

\* the bug of sorting the cells by ascending priority
HintonCellKey_AscendingPriority(priorities, column_labels, k) ==
    <<At(priorities, k)>> \o (IF column_labels.given THEN Ords(At(column_labels.val, k)) ELSE <<0>>)

\* lines 78-79: the sort key of the loop that draws the cells
HintonCellKey(priorities, column_labels, k) ==
    <<-At(priorities, k)>> \o (IF column_labels.given THEN Ords(At(column_labels.val, k)) ELSE <<0>>)

\* the bug of sorting the labels by name alone
HintonLabelKey_NameOnly(priorities, column_labels, k) == Ords(At(column_labels.val, k))

\* line 104: the sort key of the loop that writes the column labels
HintonLabelKey(priorities, column_labels, k) ==
    <<-At(priorities, k)>> \o Ords(At(column_labels.val, k))

\* lines 82-91: the colour of a cell
HintonColor(maf) ==
    IF maf > 0 THEN "blue"
    ELSE IF maf = POS_UNKNOWN THEN "(0.9, 0.75, 0.75)"
    ELSE IF maf = NEG_UNKNOWN THEN "(0.9, 0.75, 0.75)"
    ELSE "(1.0, 0.3, 0.3)"

\* lines 77-95: the rectangles added to the axes (coordinates in tenths)
HintonCells(data, order) ==
    {[x_pos |-> x_pos, row |-> sa_idx, mut_idx |-> At(order, x_pos), sa_idx |-> sa_idx,
      x |-> 10 * x_pos * HintonWidth,
      y |-> 10 * (HintonHeight + HintonYSpacing) * (Len(At(data, At(order, x_pos))) - sa_idx - 1),
      color |-> HintonColor(At(At(data, At(order, x_pos)), sa_idx))] :
        <<x_pos, sa_idx>> \in {c \in (0..(Len(order) - 1)) \X (0..(LongestRow(data) - 1)) :
                                   c[2] < Len(At(data, At(order, c[1])))}}

\* the bug of writing the labels without inverting the row coordinate
HintonRowTexts_NotInverted(row_labels) ==
    IF ~row_labels.given THEN {}
    ELSE {[row |-> sa_idx, sa_idx |-> sa_idx,
           x |-> 10 * HintonLabelXPos,
           y |-> 10 * ((HintonHeight + HintonYSpacing) * sa_idx + 1),
           text |-> Replace(At(row_labels.val, sa_idx), "_", <<" ">>)] :
              sa_idx \in 0..(Len(row_labels.val) - 1)}

\* lines 97-100: the sample names written left of the rows
HintonRowTexts(row_labels) ==
    IF ~row_labels.given THEN {}
    ELSE {[row |-> sa_idx, sa_idx |-> sa_idx,
           x |-> 10 * HintonLabelXPos,
           y |-> 10 * ((HintonHeight + HintonYSpacing) * (Len(row_labels.val) - sa_idx - 1) + 1),
           text |-> Replace(At(row_labels.val, sa_idx), "_", <<" ">>)] :
              sa_idx \in 0..(Len(row_labels.val) - 1)}

\* lines 102-108: the gene names written above the columns
HintonColTexts(data, column_labels, order) ==
    IF ~column_labels.given THEN {}
    ELSE {[x_pos |-> x_pos, mut_idx |-> At(order, x_pos),
           x |-> 10 * x_pos * HintonWidth + 5 * HintonWidth + 2,
           y |-> 10 * (HintonLabelYPos
                       + (HintonHeight + HintonYSpacing) * Len(At(data, At(order, x_pos)))),
           text |-> FormatGeneName(At(column_labels.val, At(order, x_pos)), HintonMaxLength)] :
              x_pos \in 0..(Len(order) - 1)}

\* lines 103-107: the log records of the calls that format the column labels
HintonLabelLogs(column_labels, order) ==
    IF ~column_labels.given THEN <<>>
    ELSE FormatGeneNameLogs([i \in 1..Len(order) |-> At(column_labels.val, order[i])],
                            HintonMaxLength)

InitHinton ==
    /\ pc = "call"
    /\ fig = NoFigure
    /\ \E nm \in 1..MaxMut, s \in 1..MaxS, short \in BOOLEAN :
         /\ short => (nm >= 2 /\ s >= 2)
         /\ LET ncells == nm * s - (IF short THEN 1 ELSE 0)
            IN /\ ncells <= MaxInput
               /\ \E displayed_mutations \in
                        OptLists(0..(nm - 1), Min(MaxDisp, MaxInput - ncells)) :
                  \E column_labels \in {None} \cup {Some(l) : l \in [1..nm -> GeneNames]} :
                  \E row_labels \in {None} \cup {Some(SampleNames(n)) : n \in 1..MaxS} :
                    /\ ncells + Entries(displayed_mutations) + Entries(column_labels)
                         + Entries(row_labels) <= MaxInput
                    /\ \E rect \in RectData(nm, s) :
                         call = [fn |-> "hinton",
                                 data |-> IF short THEN ShortLast(rect) ELSE rect,
                                 row_labels |-> row_labels,
                                 column_labels |-> column_labels,
                                 displayed_mutations |-> displayed_mutations]

\* Each local of the function is bound once, in the order the code assigns it.

\* line 49: data[0] of an empty table raises IndexError, before plt.figure
HintonRaisesEarly(data) == data = <<>>

\* lines 64-79: data[mut_idx], priorities[mut_idx] or column_labels[k] raises
\* IndexError, in the loop over displayed_mutations or in the sort that follows
HintonIndexError(data, column_labels, displayed_mutations) ==
    \E k \in 1..Len(displayed_mutations) :
        \/ ~InRange(data, displayed_mutations[k])
        \/ column_labels.given /\ ~InRange(column_labels.val, displayed_mutations[k])

HintonRendered(data, displayed_mutations) ==
    \E priorities \in {HintonPriorities(data, displayed_mutations)} :
    \E cell_order \in
           {SortedByKey(displayed_mutations,
                        [i \in 1..Len(displayed_mutations) |->
                             HintonCellKey(priorities, call.column_labels,
                                           displayed_mutations[i])])} :
    \E label_order \in
           {IF call.column_labels.given
            THEN SortedByKey(displayed_mutations,
                             [i \in 1..Len(displayed_mutations) |->
                                  HintonLabelKey(priorities, call.column_labels,
                                                 displayed_mutations[i])])
            ELSE <<>>} :
      fig' = [fig EXCEPT
                !.created = TRUE,
                !.priorities = priorities,
                !.cells = HintonCells(data, cell_order),
                !.row_texts = HintonRowTexts(call.row_labels),
                !.col_texts = HintonColTexts(data, call.column_labels, label_order),
                !.saved = {"pdf", "png"},
                !.log = HintonLabelLogs(call.column_labels, label_order) \o <<"info">>]

Hinton ==
    /\ pc = "call"
    /\ call.fn = "hinton"
    /\ \E data \in {call.data} :
       \E displayed_mutations \in {IF call.displayed_mutations.given
                                   THEN call.displayed_mutations.val
                                   ELSE Range(Len(data))} :
         IF HintonRaisesEarly(data)
         THEN fig' = [fig EXCEPT !.raised = TRUE, !.exception = "IndexError"]
         ELSE IF HintonIndexError(data, call.column_labels, displayed_mutations)
         THEN fig' = [fig EXCEPT !.created = TRUE, !.raised = TRUE,
                                 !.exception = "IndexError"]
         ELSE HintonRendered(data, displayed_mutations)
    /\ pc' = "done"
    /\ UNCHANGED call

(***************************************************************************)
(* clustered_table                                                         *)
(***************************************************************************)
ClusteredHeight == 4

ClusteredWidth == 2

ClusteredYSpacing == 1

ClusteredLabelXPos == -2

ClusteredLabelYPos == 0

ClusteredMaxLength == 12

ClusteredPriorityBase == 4

\* den['leaves'] of a dendrogram over n samples: the sample indices, each once
LeafOrders(n) == {p \in [1..n -> 0..(n - 1)] : \A i, j \in 1..n : p[i] = p[j] => i = j}

\* lines 359-360: the copy of den['leaves'], reversed
LeaveOrdering(leaves) == Reversed(leaves)

\* lines 367-375: the weight a state adds at its position
ClusteredWeight(maf) ==
    IF maf > 0 THEN 3
    ELSE IF maf = POS_UNKNOWN THEN 1
    ELSE IF maf = NEG_UNKNOWN THEN 1
    ELSE 0

\* the bug of weighting the samples in their declared order
ClusteredRowPriority_DeclaredOrder(row, leave_ordering) ==
    SumOf([n \in 1..Len(row) |->
               LET i == n - 1
               IN ClusteredWeight(At(row, i))
                      * Pow(ClusteredPriorityBase, Len(row) - i - 1)])

\* lines 362-375: what one pass over a mutation's vector adds to its priority
ClusteredRowPriority(row, leave_ordering) ==
    SumOf([n \in 1..Len(row) |->
               LET i == n - 1
               IN ClusteredWeight(At(row, At(leave_ordering, i)))
                      * Pow(ClusteredPriorityBase, Len(row) - i - 1)])

\* lines 364-365: reading position i of a mutation's vector raises IndexError
ClusteredIndexError(row, leave_ordering) ==
    \E i \in 0..(Len(row) - 1) :
        \/ ~InRange(leave_ordering, i)
        \/ ~InRange(row, At(leave_ordering, i))

\* lines 358-375: the priorities list after the loop over displayed_mutations
ClusteredPriorities(data, displayed_mutations, leave_ordering) ==
    LET RECURSIVE After(_)
        After(k) ==
            IF k = 0 THEN [i \in 1..Len(data) |-> 0]
            ELSE LET mut_idx == displayed_mutations[k]
                 IN [After(k - 1) EXCEPT
                       ![Norm(data, mut_idx) + 1] =
                           @ + ClusteredRowPriority(At(data, mut_idx), leave_ordering)]
    IN After(Len(displayed_mutations))

\* lines 378-379: the sort key of the loop that draws the cells
ClusteredCellKey(priorities, gene_names, k) ==
    <<-At(priorities, k)>> \o Ords(At(gene_names, k))

\* lines 410-411: the sort key of the loop that writes the column labels
ClusteredLabelKey(priorities, gene_names, k) ==
    <<-At(priorities, k)>> \o Ords(At(gene_names, k))

\* the bug of leaving NEG_UNKNOWN to the absent branch
ClusteredColor_NegUnknownAbsent(maf) ==
    IF maf > 0 THEN "blue"
    ELSE IF maf = POS_UNKNOWN THEN "(0.9, 0.75, 0.75)"
    ELSE "(1.0, 0.3, 0.3)"

\* lines 386-395: the colour of a cell
ClusteredColor(maf) ==
    IF maf > 0 THEN "blue"
    ELSE IF maf = POS_UNKNOWN THEN "(0.9, 0.75, 0.75)"
    ELSE IF maf = NEG_UNKNOWN THEN "(0.9, 0.75, 0.75)"
    ELSE "(1.0, 0.3, 0.3)"

\* lines 378-399: the rectangles added to the table axes (coordinates in tenths)
ClusteredCells(data, order, leave_ordering) ==
    {[x_pos |-> x_pos, row |-> i, mut_idx |-> At(order, x_pos),
      sa_idx |-> At(leave_ordering, i),
      x |-> 10 * x_pos * ClusteredWidth,
      y |-> 10 * (ClusteredHeight + ClusteredYSpacing)
                * (Len(At(data, At(order, x_pos))) - i - 1),
      color |-> ClusteredColor(At(At(data, At(order, x_pos)), At(leave_ordering, i)))] :
        <<x_pos, i>> \in {c \in (0..(Len(order) - 1)) \X (0..(LongestRow(data) - 1)) :
                              c[2] < Len(At(data, At(order, c[1])))}}

\* the bug of labelling row i with the name of the sample declared at index i
ClusteredRowTexts_ByPosition(row_labels, leaves) ==
    IF ~row_labels.given THEN {}
    ELSE {[row |-> i, sa_idx |-> i,
           x |-> 10 * ClusteredLabelXPos,
           y |-> 10 * (ClusteredHeight + ClusteredYSpacing) * (Len(row_labels.val) - i - 1) + 5,
           text |-> Replace(At(row_labels.val, i), "_", <<" ">>)] :
              i \in 0..(Len(leaves) - 1)}

\* lines 402-406: the sample names written left of the rows
ClusteredRowTexts(row_labels, leaves) ==
    IF ~row_labels.given THEN {}
    ELSE {[row |-> i, sa_idx |-> At(Reversed(leaves), i),
           x |-> 10 * ClusteredLabelXPos,
           y |-> 10 * (ClusteredHeight + ClusteredYSpacing) * (Len(row_labels.val) - i - 1) + 5,
           text |-> Replace(At(row_labels.val, At(Reversed(leaves), i)), "_", <<" ">>)] :
              i \in 0..(Len(leaves) - 1)}

\* lines 409-415: the gene names written above the columns
ClusteredColTexts(data, column_labels, gene_names, order) ==
    IF ~column_labels.given THEN {}
    ELSE {[x_pos |-> x_pos, mut_idx |-> At(order, x_pos),
           x |-> 10 * x_pos * ClusteredWidth + 5,
           y |-> 10 * (ClusteredLabelYPos + (ClusteredHeight + ClusteredYSpacing)
                                              * Len(At(data, At(order, x_pos)))),
           text |-> FormatGeneName(At(gene_names, At(order, x_pos)), ClusteredMaxLength)] :
              x_pos \in 0..(Len(order) - 1)}

InitClustered ==
    /\ pc = "call"
    /\ fig = NoFigure
    /\ \E nm \in 1..MaxMut, s \in 1..MaxS, n \in 2..MaxS :
         /\ nm * s + (n - 1) + nm <= MaxInput
         /\ \E displayed_mutations \in
                  OptLists(0..(nm - 1), Min(MaxDisp, MaxInput - (nm * s + (n - 1) + nm))) :
            \E gene_names \in [1..nm -> GeneNames], leaves \in LeafOrders(n) :
            \E row_labels \in {None, Some(SampleNames(n))} :
            \E column_labels \in {None, Some(gene_names)} :
            \E data \in RectData(nm, s) :
              call = [fn |-> "clustered_table", data |-> data,
                      sample_names |-> SampleNames(n), gene_names |-> gene_names,
                      leaves |-> leaves, row_labels |-> row_labels,
                      column_labels |-> column_labels,
                      displayed_mutations |-> displayed_mutations]

\* line 336: patient.data[0] of an empty table raises IndexError, before
\* plt.figure
ClusteredRaisesEarly(data) == data = <<>>

\* lines 361-379: patient.data[mut_idx], leave_ordering[i], the cell read at
\* the leaf, priorities[mut_idx] or patient.gene_names[k] raises IndexError,
\* in the loop over displayed_mutations or in the sort that follows
ClusteredRaises(data, gene_names, displayed_mutations, leave_ordering) ==
    \/ \E k \in 1..Len(displayed_mutations) :
           \/ ~InRange(data, displayed_mutations[k])
           \/ ClusteredIndexError(At(data, displayed_mutations[k]), leave_ordering)
    \/ \E k \in 1..Len(displayed_mutations) :
           ~InRange(gene_names, displayed_mutations[k])

\* line 405: row_labels[sa_idx] raises IndexError for the leaf at position i
ClusteredRowLabelError(row_labels, leaves, i) ==
    ~InRange(row_labels.val, At(Reversed(leaves), i))

ClusteredRowLabelsRaise(row_labels, leaves) ==
    /\ row_labels.given
    /\ \E i \in 0..(Len(leaves) - 1) : ClusteredRowLabelError(row_labels, leaves, i)

\* lines 403-406: the number of passes of the loop that wrote a label
ClusteredRowLabelsDone(row_labels, leaves) ==
    Cardinality({i \in 0..(Len(leaves) - 1) :
                     \A j \in 0..i : ~ClusteredRowLabelError(row_labels, leaves, j)})

\* lines 402-406: the sample names written when the loop raises: those of
\* the passes before the failing one, the last leaves of den['leaves']
ClusteredRowTextsWritten(row_labels, leaves) ==
    ClusteredRowTexts(row_labels,
                      SubSeq(leaves,
                             Len(leaves) - ClusteredRowLabelsDone(row_labels, leaves) + 1,
                             Len(leaves)))

\* lines 409-414: the log records of the calls that format the gene names
ClusteredLabelLogs(column_labels, gene_names, order) ==
    IF ~column_labels.given THEN <<>>
    ELSE FormatGeneNameLogs([i \in 1..Len(order) |-> At(gene_names, order[i])],
                            ClusteredMaxLength)

ClusteredRendered(data, displayed_mutations, leave_ordering) ==
    \E priorities \in {ClusteredPriorities(data, displayed_mutations, leave_ordering)} :
    \E cell_order \in
           {SortedByKey(displayed_mutations,
                        [i \in 1..Len(displayed_mutations) |->
                             ClusteredCellKey(priorities, call.gene_names,
                                              displayed_mutations[i])])} :
    \E label_order \in
           {SortedByKey(displayed_mutations,
                        [i \in 1..Len(displayed_mutations) |->
                             ClusteredLabelKey(priorities, call.gene_names,
                                               displayed_mutations[i])])} :
      IF ClusteredRowLabelsRaise(call.row_labels, call.leaves)
      THEN fig' = [fig EXCEPT
                     !.created = TRUE,
                     !.cells = ClusteredCells(data, cell_order, leave_ordering),
                     !.row_texts = ClusteredRowTextsWritten(call.row_labels, call.leaves),
                     !.raised = TRUE, !.exception = "IndexError"]
      ELSE fig' = [fig EXCEPT
                     !.created = TRUE,
                     !.priorities = priorities,
                     !.cells = ClusteredCells(data, cell_order, leave_ordering),
                     !.row_texts = ClusteredRowTexts(call.row_labels, call.leaves),
                     !.col_texts = ClusteredColTexts(data, call.column_labels,
                                                     call.gene_names, label_order),
                     !.saved = {"file"},
                     !.log = ClusteredLabelLogs(call.column_labels, call.gene_names,
                                                label_order) \o <<"info">>]

ClusteredTable ==
    /\ pc = "call"
    /\ call.fn = "clustered_table"
    /\ \E data \in {call.data} :
       \E displayed_mutations \in {IF call.displayed_mutations.given
                                   THEN call.displayed_mutations.val
                                   ELSE Range(Len(data))} :
       \E leave_ordering \in {LeaveOrdering(call.leaves)} :
         IF ClusteredRaisesEarly(data)
         THEN fig' = [fig EXCEPT !.raised = TRUE, !.exception = "IndexError"]
         ELSE IF ClusteredRaises(data, call.gene_names, displayed_mutations, leave_ordering)
         THEN fig' = [fig EXCEPT !.created = TRUE, !.raised = TRUE,
                                 !.exception = "IndexError"]
         ELSE ClusteredRendered(data, displayed_mutations, leave_ordering)
    /\ pc' = "done"
    /\ UNCHANGED call

(***************************************************************************)
(* create_incompatible_mp_table                                            *)
(***************************************************************************)
MpHeight == 4

MpWidth == 1

MpYSpacing == 1

MpLabelXPos == -2

MpLabelYPos == 0

MpCbWidth == 30

MpMaxLength == 12

\* a dict from mutation indices to sets of sample indices, in insertion order
KeyLists(nm, maxlen) ==
    {l \in Seqs(0..(nm - 1), 0, maxlen) : \A i, j \in 1..Len(l) : l[i] = l[j] => i = j}

\* the members of a set of integers, smallest first
Ascending(S) ==
    LET RECURSIVE From(_)
        From(T) == IF T = {} THEN <<>>
                   ELSE LET least == CHOOSE x \in T : \A y \in T : x <= y
                        IN <<least>> \o From(T \ {least})
    IN From(S)

DictCost(d) == SumOf([n \in 1..Len(d) |-> 1 + Cardinality(d[n].val)])

Dicts(nm, s, budget) ==
    {d \in UNION {{[i \in 1..Len(keys) |->
                        [key |-> keys[i], val |-> vals[i], order |-> Ascending(vals[i])]] :
                      vals \in [1..Len(keys) -> SUBSET (0..(s - 1))]} :
                  keys \in KeyLists(nm, Min(nm, budget))} :
        DictCost(d) <= budget}

Keys(d) == [i \in 1..Len(d) |-> d[i].key]

HasKey(d, k) == \E i \in 1..Len(d) : d[i].key = k

Get(d, k) == d[CHOOSE i \in 1..Len(d) : d[i].key = k].val

\* the members of the set d[k] in the order iterating over it yields them
Yielded(d, k) == d[CHOOSE i \in 1..Len(d) : d[i].key = k].order

\* the phylogeny objects a caller hands over, by class
Phylogenies(nm, s, budget) ==
    {[kind |-> "CompatiblePhylogeny", conflicting_mutations |-> l] :
         l \in KeyLists(nm, Min(nm, budget))}
    \cup {[kind |-> "ResolvedPhylogeny", incompatible_positions |-> d] :
              d \in Dicts(nm, s, budget)}
    \cup {[kind |-> "MaxLHPhylogeny", false_positives |-> d.fp, false_negatives |-> d.fn] :
              d \in {e \in [fp : Dicts(nm, s, budget), fn : Dicts(nm, s, budget)] :
                         DictCost(e.fp) + DictCost(e.fn) <= budget}}
    \cup {[kind |-> "SubclonalPhylogeny"], [kind |-> "object"]}

\* lines 137-144: the mutations to display, by class of the phylogeny
MpDisplayedMutations(data, phylogeny) ==
    IF phylogeny.kind = "CompatiblePhylogeny" THEN phylogeny.conflicting_mutations
    ELSE IF phylogeny.kind = "ResolvedPhylogeny"
    THEN SelectSeq(Keys(phylogeny.incompatible_positions),
                   LAMBDA mut_idx :
                       \E sa_idx \in Get(phylogeny.incompatible_positions, mut_idx) :
                           /\ InRange(data, mut_idx)
                           /\ InRange(At(data, mut_idx), sa_idx)
                           /\ At(At(data, mut_idx), sa_idx) >= 0)
    ELSE Keys(phylogeny.false_positives) \o Keys(phylogeny.false_negatives)

\* lines 137-151: the classes a table is drawn for
MpSupported(phylogeny) ==
    phylogeny.kind \in {"CompatiblePhylogeny", "ResolvedPhylogeny", "MaxLHPhylogeny"}

\* lines 145-151: what is logged for the other classes
MpSkipLog(phylogeny) ==
    IF phylogeny.kind = "SubclonalPhylogeny" THEN <<"warning">> ELSE <<"error", "error">>

\* line 176: the sort key of the loop that draws the cells
MpCellKey(column_labels, k) ==
    IF column_labels.given THEN Ords(Lower(At(column_labels.val, k))) ELSE <<k>>

\* line 234: the sort key of the loop that writes the column labels
MpLabelKey(column_labels, k) == Ords(Lower(At(column_labels.val, k)))

MpPresentColor == "blue"

MpAbsentColor == "(1.0, 0.3, 0.3)"

MpUnknownColor == "(0.9, 0.75, 0.75)"

\* lines 186-195: the colour of the box around a cell
MpClassColor(maf) ==
    IF maf > 0 THEN MpPresentColor
    ELSE IF maf = POS_UNKNOWN THEN MpUnknownColor
    ELSE IF maf = NEG_UNKNOWN THEN MpUnknownColor
    ELSE MpAbsentColor

(***************************************************************************)
(* The numbers handed to the colour maps.  A value is either the rational  *)
(* num / den in lowest terms (kind "rat"), or log10(num) / den (kind       *)
(* "log10"), which math.log(cov, 10) / 3 produces.                         *)
(***************************************************************************)
GCD(a, b) ==
    LET RECURSIVE G(_, _)
        G(x, y) == IF y = 0 THEN x ELSE G(y, x % y)
    IN G(a, b)

\* num / den for num >= 0 and den > 0
Rat(num, den) ==
    [kind |-> "rat", num |-> num \div GCD(num, den), den |-> den \div GCD(num, den)]

RatLess(a, b) == a.num * b.den < b.num * a.den

Log10Over(num, den) == [kind |-> "log10", num |-> num, den |-> den]

\* line 198: the coverage from which the coverage scale is saturated
MpCovSaturation == 1000

\* line 198: math.log(cov, 10) / 3
MpLogDivisor == 3

\* lines 180-184: the fraction of reads that support the variant
MpRawMaf(reads, cov) == IF cov > 0 THEN Rat(reads, cov) ELSE Rat(0, 1)

\* the bug of saturating the scale at a fraction of 1 instead of 0.5
MpMafIntensity_NoSaturation(raw_maf) ==
    IF RatLess(raw_maf, Rat(1, 1)) THEN Rat(2 * raw_maf.num, raw_maf.den) ELSE Rat(1, 1)

\* line 197: 2.0 * raw_maf if raw_maf < 0.5 else 1.0
MpMafIntensity(raw_maf) ==
    IF RatLess(raw_maf, Rat(1, 2)) THEN Rat(2 * raw_maf.num, raw_maf.den) ELSE Rat(1, 1)

\* the bug of saturating the scale only from a coverage of 10000
MpCovIntensity_LateSaturation(cov) ==
    IF 0 < cov /\ cov < 10 * MpCovSaturation THEN Log10Over(cov, MpLogDivisor)
    ELSE IF cov <= 0 THEN Rat(0, 1)
    ELSE Rat(1, 1)

\* line 198: math.log(cov, 10)/3 if 0 < cov < 1000 else 0.0 if cov <= 0.0 else 1.0
MpCovIntensity(cov) ==
    IF 0 < cov /\ cov < MpCovSaturation THEN Log10Over(cov, MpLogDivisor)
    ELSE IF cov <= 0 THEN Rat(0, 1)
    ELSE Rat(1, 1)

\* patient.mut_keys: the key of every mutation, in the order of patient.data
MutKeys(nm) == SubSeq(<<"m0", "m1", "m2", "m3">>, 1, nm)

\* patient.mut_reads and patient.phred_coverage: a dictionary from mutation
\* key to a dictionary from sample name to a count, here with the counts of
\* the matrix counts for the keys mut_keys and the names sample_names
ReadTable(mut_keys, sample_names, counts) ==
    [m \in 1..Len(mut_keys) |->
         [key |-> mut_keys[m],
          val |-> [sa \in 1..Len(sample_names) |->
                       [key |-> sample_names[sa], val |-> counts[m][sa]]]]]

\* lines 180, 182: the exception raised by
\* table[patient.mut_keys[mut_idx]][patient.sample_names[sa_idx]], in the
\* order the subscripts are evaluated: IndexError for an index outside a
\* list, KeyError for a key missing from a dictionary, "None" for neither
MpReadError(table, patient, mut_idx, sa_idx) ==
    IF ~InRange(patient.mut_keys, mut_idx) THEN "IndexError"
    ELSE IF ~HasKey(table, At(patient.mut_keys, mut_idx)) THEN "KeyError"
    ELSE IF ~InRange(patient.sample_names, sa_idx) THEN "IndexError"
    ELSE IF ~HasKey(Get(table, At(patient.mut_keys, mut_idx)),
                    At(patient.sample_names, sa_idx)) THEN "KeyError"
    ELSE "None"

\* lines 180, 182: table[patient.mut_keys[mut_idx]][patient.sample_names[sa_idx]]
MpRead(table, patient, mut_idx, sa_idx) ==
    Get(Get(table, At(patient.mut_keys, mut_idx)), At(patient.sample_names, sa_idx))

\* lines 180-184, 197, 200-202: the rectangles filled from the Blues colour map
MpMafRects(patient, order, drawn) ==
    {[x_pos |-> x_pos, row |-> sa_idx, mut_idx |-> At(order, x_pos), sa_idx |-> sa_idx,
      x |-> 10 * (x_pos * MpWidth * 3 + 0),
      y |-> 10 * (MpHeight + MpYSpacing)
                * (Len(At(patient.data, At(order, x_pos))) - sa_idx - 1),
      color |-> [cm |-> "Blues",
                 value |-> LET cov == MpRead(patient.phred_coverage, patient,
                                             At(order, x_pos), sa_idx)
                           IN MpMafIntensity(
                                  IF cov > 0
                                  THEN MpRawMaf(MpRead(patient.mut_reads, patient,
                                                       At(order, x_pos), sa_idx), cov)
                                  ELSE MpRawMaf(0, cov))]] :
        <<x_pos, sa_idx>> \in drawn}

\* lines 180, 198, 203-205: the rectangles filled from the Greens colour map
MpCovRects(patient, order, drawn) ==
    {[x_pos |-> x_pos, row |-> sa_idx, mut_idx |-> At(order, x_pos), sa_idx |-> sa_idx,
      x |-> 10 * (x_pos * MpWidth * 3 + 1),
      y |-> 10 * (MpHeight + MpYSpacing)
                * (Len(At(patient.data, At(order, x_pos))) - sa_idx - 1),
      color |-> [cm |-> "Greens",
                 value |-> MpCovIntensity(MpRead(patient.phred_coverage, patient,
                                                 At(order, x_pos), sa_idx))]] :
        <<x_pos, sa_idx>> \in drawn}

\* lines 175-210: the boxes added to the axes (coordinates in tenths)
MpCells(data, order, drawn) ==
    {[x_pos |-> x_pos, row |-> sa_idx, mut_idx |-> At(order, x_pos), sa_idx |-> sa_idx,
      x |-> 10 * x_pos * MpWidth * 3,
      y |-> 10 * (MpHeight + MpYSpacing) * (Len(At(data, At(order, x_pos))) - sa_idx - 1),
      color |-> MpClassColor(At(At(data, At(order, x_pos)), sa_idx))] :
        <<x_pos, sa_idx>> \in drawn}

\* lines 212-225: the colour of the half-height rectangle over a cell, if any
MpOverlay(phylogeny, mut_idx, sa_idx) ==
    IF phylogeny.kind # "MaxLHPhylogeny" THEN None
    ELSE IF HasKey(phylogeny.false_positives, mut_idx)
            /\ sa_idx \in Get(phylogeny.false_positives, mut_idx)
    THEN Some(MpAbsentColor)
    ELSE IF HasKey(phylogeny.false_negatives, mut_idx)
            /\ sa_idx \in Get(phylogeny.false_negatives, mut_idx)
    THEN Some(MpPresentColor)
    ELSE None

\* the bug of testing the false negatives with an if of their own
MpOverlays_BothBranches(cells, phylogeny) ==
    IF phylogeny.kind # "MaxLHPhylogeny" THEN {}
    ELSE {[x_pos |-> c.x_pos, row |-> c.row, mut_idx |-> c.mut_idx, sa_idx |-> c.sa_idx,
           x |-> c.x, y |-> c.y, color |-> MpAbsentColor] :
             c \in {d \in cells :
                        /\ HasKey(phylogeny.false_positives, d.mut_idx)
                        /\ d.sa_idx \in Get(phylogeny.false_positives, d.mut_idx)}}
         \cup
         {[x_pos |-> c.x_pos, row |-> c.row, mut_idx |-> c.mut_idx, sa_idx |-> c.sa_idx,
           x |-> c.x, y |-> c.y, color |-> MpPresentColor] :
             c \in {d \in cells :
                        /\ HasKey(phylogeny.false_negatives, d.mut_idx)
                        /\ d.sa_idx \in Get(phylogeny.false_negatives, d.mut_idx)}}

MpOverlays(cells, phylogeny) ==
    {[x_pos |-> c.x_pos, row |-> c.row, mut_idx |-> c.mut_idx, sa_idx |-> c.sa_idx,
      x |-> c.x, y |-> c.y, color |-> MpOverlay(phylogeny, c.mut_idx, c.sa_idx).val] :
        c \in {d \in cells : MpOverlay(phylogeny, d.mut_idx, d.sa_idx).given}}

\* lines 227-230: the sample names written left of the rows
MpRowTexts(row_labels) ==
    IF ~row_labels.given THEN {}
    ELSE {[row |-> sa_idx, sa_idx |-> sa_idx,
           x |-> 10 * MpLabelXPos,
           y |-> 10 * ((MpHeight + MpYSpacing) * (Len(row_labels.val) - sa_idx - 1) + 1),
           text |-> Replace(At(row_labels.val, sa_idx), "_", <<" ">>)] :
              sa_idx \in 0..(Len(row_labels.val) - 1)}

\* lines 232-238: the gene names written above the columns
MpColTexts(data, column_labels, order) ==
    IF ~column_labels.given THEN {}
    ELSE {[x_pos |-> x_pos, mut_idx |-> At(order, x_pos),
           x |-> 10 * x_pos * MpWidth * 3 + 10 * MpWidth + 1,
           y |-> 10 * (MpLabelYPos + (MpHeight + MpYSpacing) * Len(At(data, At(order, x_pos)))),
           text |-> FormatGeneName(At(column_labels.val, At(order, x_pos)), MpMaxLength)] :
              x_pos \in 0..(Len(order) - 1)}

\* lines 233-237: the log records of the calls that format the column labels
MpLabelLogs(column_labels, order) ==
    IF ~column_labels.given THEN <<>>
    ELSE FormatGeneNameLogs([i \in 1..Len(order) |-> At(column_labels.val, order[i])],
                            MpMaxLength)

\* lines 153-157, 266: the figure size returned
MpLengths(data, row_labels, column_labels, displayed_mutations) ==
    <<(IF row_labels.given THEN -MpLabelXPos + 20 ELSE 0)
          + Len(displayed_mutations) * MpWidth * 3 + MpCbWidth,
      Len(data[1]) * (MpHeight + MpYSpacing) - MpYSpacing
          + (IF column_labels.given THEN MpLabelYPos + 20 ELSE 0)>>

\* the patients with up to MaxMut mutations, none included, over up to MaxS
\* samples, whose positions no read covers (every count is 0)
InitMpTable ==
    /\ pc = "call"
    /\ fig = NoFigure
    /\ \E nm \in 0..MaxMut, s \in 1..MaxS :
         /\ nm * s <= MaxInput
         /\ \E column_labels \in {None} \cup {Some(l) : l \in [1..nm -> GeneNames]} :
            \E row_labels \in {None, Some(SampleNames(s))} :
              /\ nm * s + Entries(column_labels) + Entries(row_labels) <= MaxInput
              /\ \E phylogeny \in
                       Phylogenies(nm, s, MaxInput - nm * s - Entries(column_labels)
                                              - Entries(row_labels)) :
                 \E data \in RectData(nm, s) :
                   call = [fn |-> "create_incompatible_mp_table", data |-> data,
                           mut_keys |-> MutKeys(nm), sample_names |-> SampleNames(s),
                           mut_reads |-> ReadTable(MutKeys(nm), SampleNames(s),
                                                   [m \in 1..nm |-> [sa \in 1..s |-> 0]]),
                           phred_coverage |->
                               ReadTable(MutKeys(nm), SampleNames(s),
                                         [m \in 1..nm |-> [sa \in 1..s |-> 0]]),
                           phylogeny |-> phylogeny, row_labels |-> row_labels,
                           column_labels |-> column_labels]

\* lines 140-141: any() reads patient.data[mut_idx][sa_idx] for the samples of
\* a position, in the order the set yields them, until one is not negative; a
\* read outside the table raises IndexError
MpDispatchRaises(data, phylogeny) ==
    /\ phylogeny.kind = "ResolvedPhylogeny"
    /\ \E k \in 1..Len(Keys(phylogeny.incompatible_positions)) :
         LET mut_idx == Keys(phylogeny.incompatible_positions)[k]
             samples == Yielded(phylogeny.incompatible_positions, mut_idx)
             Readable(sa) == InRange(data, mut_idx) /\ InRange(At(data, mut_idx), sa)
         IN \E n \in 1..Len(samples) :
                /\ ~Readable(samples[n])
                /\ \A before \in 1..(n - 1) :
                       Readable(samples[before]) /\ At(At(data, mut_idx), samples[before]) < 0

\* lines 140-141, 154: the exceptions raised before plt.figure
MpRaisesEarly(data, phylogeny) ==
    MpDispatchRaises(data, phylogeny) \/ data = <<>>

\* line 176: column_labels[k] raises IndexError in the sort of the columns
MpSortRaises(column_labels, displayed_mutations) ==
    /\ column_labels.given
    /\ \E k \in 1..Len(displayed_mutations) :
           ~InRange(column_labels.val, displayed_mutations[k])

\* lines 180-182: the exception a cell raises: that of the lookup of its
\* coverage, else, the coverage being positive, that of the lookup of its
\* read count
MpCellError(patient, mut_idx, sa_idx) ==
    LET cov_error == MpReadError(patient.phred_coverage, patient, mut_idx, sa_idx)
    IN IF cov_error # "None" THEN cov_error
       ELSE IF MpRead(patient.phred_coverage, patient, mut_idx, sa_idx) > 0
       THEN MpReadError(patient.mut_reads, patient, mut_idx, sa_idx)
       ELSE "None"

\* lines 178-182: the exception a column raises: IndexError at
\* patient.data[mut_idx], else that of its first cell that raises
MpColumnError(patient, mut_idx) ==
    IF ~InRange(patient.data, mut_idx) THEN "IndexError"
    ELSE LET failing == {sa_idx \in 0..(Len(At(patient.data, mut_idx)) - 1) :
                             MpCellError(patient, mut_idx, sa_idx) # "None"}
         IN IF failing = {} THEN "None"
            ELSE MpCellError(patient, mut_idx,
                             CHOOSE sa_idx \in failing : \A other \in failing : sa_idx <= other)

\* lines 175-225: the exception that ends the loop that draws the cells:
\* that of the first column that raises
MpCellsError(patient, order) ==
    LET failing == {x_pos \in 0..(Len(order) - 1) :
                        MpColumnError(patient, At(order, x_pos)) # "None"}
    IN IF failing = {} THEN "None"
       ELSE MpColumnError(patient,
                          At(order, CHOOSE x_pos \in failing :
                                        \A other \in failing : x_pos <= other))

\* lines 175-210: the cells (x_pos, sa_idx) whose patches are added to the
\* axes: those the two loops reach before the first exception
MpDrawn(patient, order) ==
    {c \in (0..(Len(order) - 1)) \X (0..(LongestRow(patient.data) - 1)) :
         /\ \A x_pos \in 0..(c[1] - 1) : MpColumnError(patient, At(order, x_pos)) = "None"
         /\ InRange(patient.data, At(order, c[1]))
         /\ c[2] < Len(At(patient.data, At(order, c[1])))
         /\ \A sa_idx \in 0..c[2] : MpCellError(patient, At(order, c[1]), sa_idx) = "None"}

MpRendered(data, displayed_mutations) ==
    \E cell_order \in
           {SortedByKey(displayed_mutations,
                        [i \in 1..Len(displayed_mutations) |->
                             MpCellKey(call.column_labels, displayed_mutations[i])])} :
    \E label_order \in
           {IF call.column_labels.given
            THEN SortedByKey(displayed_mutations,
                             [i \in 1..Len(displayed_mutations) |->
                                  MpLabelKey(call.column_labels, displayed_mutations[i])])
            ELSE <<>>} :
    \E drawn \in {MpDrawn(call, cell_order)} :
    \E cells \in {MpCells(data, cell_order, drawn)} :
    \E patches \in
           {[fig EXCEPT
               !.created = TRUE,
               !.cells = cells,
               !.maf_rects = MpMafRects(call, cell_order, drawn),
               !.cov_rects = MpCovRects(call, cell_order, drawn),
               !.overlays = MpOverlays(cells, call.phylogeny)]} :
      IF MpCellsError(call, cell_order) # "None"
      THEN fig' = [patches EXCEPT !.raised = TRUE,
                                  !.exception = MpCellsError(call, cell_order)]
      ELSE fig' = [patches EXCEPT
                     !.row_texts = MpRowTexts(call.row_labels),
                     !.col_texts = MpColTexts(data, call.column_labels, label_order),
                     !.saved = {"pdf", "png"},
                     !.log = MpLabelLogs(call.column_labels, label_order) \o <<"info">>,
                     !.ret = Some(MpLengths(data, call.row_labels, call.column_labels,
                                            displayed_mutations))]

CreateIncompatibleMpTable ==
    /\ pc = "call"
    /\ call.fn = "create_incompatible_mp_table"
    /\ IF ~MpSupported(call.phylogeny)
       THEN fig' = [fig EXCEPT !.log = MpSkipLog(call.phylogeny)]
       ELSE IF MpRaisesEarly(call.data, call.phylogeny)
       THEN fig' = [fig EXCEPT !.raised = TRUE, !.exception = "IndexError"]
       ELSE \E data \in {call.data} :
            \E displayed_mutations \in {MpDisplayedMutations(data, call.phylogeny)} :
              IF MpSortRaises(call.column_labels, displayed_mutations)
              THEN fig' = [fig EXCEPT !.created = TRUE, !.raised = TRUE,
                                      !.exception = "IndexError"]
              ELSE MpRendered(data, displayed_mutations)
    /\ pc' = "done"
    /\ UNCHANGED call

(***************************************************************************)
(* One conflicting mutation over two samples, with the read counts and the *)
(* coverages of its two cells: the small counts, and the counts at which   *)
(* the two colour scales change (a fraction of 0.9, coverages of 999, 1000,*)
(* 1001 and 10000).  The two dictionaries hold the samples in the order of *)
(* patient.sample_names or in the opposite order: a cell finds its counts  *)
(* by the name of its sample, wherever the dictionary keeps them.          *)
(***************************************************************************)
ReadCounts == (0..MaxReads) \cup {9}

Coverages == (0..MaxCov) \cup {10, MpCovSaturation - 1, MpCovSaturation,
                               MpCovSaturation + 1, 10 * MpCovSaturation}

InitMpReads ==
    /\ pc = "call"
    /\ fig = NoFigure
    /\ \E data \in RectData(1, 2) :
       \E mut_reads \in [1..1 -> [1..2 -> ReadCounts]] :
       \E phred_coverage \in [1..1 -> [1..2 -> Coverages]] :
       \E filled \in {SampleNames(2), Reversed(SampleNames(2))} :
         call = [fn |-> "create_incompatible_mp_table", data |-> data,
                 mut_keys |-> MutKeys(1), sample_names |-> SampleNames(2),
                 mut_reads |-> ReadTable(MutKeys(1), filled, mut_reads),
                 phred_coverage |-> ReadTable(MutKeys(1), filled, phred_coverage),
                 phylogeny |-> [kind |-> "CompatiblePhylogeny",
                                conflicting_mutations |-> <<0>>],
                 row_labels |-> None, column_labels |-> None]

SpecMpReads == InitMpReads /\ [][CreateIncompatibleMpTable]_vars

(***************************************************************************)
(* Tables of two mutations over the same samples, every mutation displayed *)
(* once: hinton draws them in the declared sample order, clustered_table   *)
(* in every leaf order.                                                    *)
(***************************************************************************)
InitPairs ==
    /\ pc = "call"
    /\ fig = NoFigure
    /\ \E s \in 1..MaxPairS :
         \E data \in RectData(2, s) :
           \/ call = [fn |-> "hinton", data |-> data, row_labels |-> None,
                      column_labels |-> None, displayed_mutations |-> None]
           \/ /\ s >= 2
              /\ \E leaves \in LeafOrders(s) :
                   call = [fn |-> "clustered_table", data |-> data,
                           sample_names |-> SampleNames(s),
                           gene_names |-> <<<<"a">>, <<"a">>>>,
                           leaves |-> leaves, row_labels |-> None,
                           column_labels |-> None, displayed_mutations |-> None]

(***************************************************************************)
(* The three table renderers together.                                     *)
(***************************************************************************)
InitTables == InitHinton \/ InitMpTable \/ InitClustered \/ InitPairs

NextTables == Hinton \/ CreateIncompatibleMpTable \/ ClusteredTable

SpecTables == InitTables /\ [][NextTables]_vars

(***************************************************************************)
(* Calls at the edge of what the renderers accept: an empty table, vectors *)
(* of unequal or zero length, indices outside the table or counted from    *)
(* its end, label lists shorter than the table, read tables with missing   *)
(* entries, and a gene name long enough to be cut at its comma.            *)
(***************************************************************************)
MaxEdge == 2

LongName == <<"A", "A", "A", "A", "A", "A", "A", ",", "A">>

EdgeNames == {<<"a">>, LongName}

EdgeData == Seqs(Seqs({0, 1}, 0, MaxEdge), 0, MaxEdge)

EdgeIndices == (-MaxEdge)..MaxEdge

\* the patients of the edge calls of create_incompatible_mp_table: keys,
\* names and read tables that fit the state matrix, and those where the key
\* of the last mutation or the name of the last sample is missing from one
\* of the tables or from the patient's lists, or where a key is spare
EdgePatients(data) ==
    LET nm == Len(data)
        s == LongestRow(data)
        Table(mut_keys, sample_names) ==
            ReadTable(mut_keys, sample_names,
                      [m \in 1..Len(mut_keys) |-> [sa \in 1..Len(sample_names) |-> 1]])
        Patient(mut_keys, sample_names, mut_reads, phred_coverage) ==
            [mut_keys |-> mut_keys, sample_names |-> sample_names,
             mut_reads |-> mut_reads, phred_coverage |-> phred_coverage]
        keys == MutKeys(nm)
        names == SampleNames(s)
        full == Table(keys, names)
    IN {Patient(keys, names, full, full),
        Patient(keys, names, Table(keys, SampleNames(s - 1)), full),
        Patient(keys, names, full, Table(keys, SampleNames(s - 1))),
        Patient(keys, names, Table(MutKeys(nm - 1), names), full),
        Patient(keys, names, full, Table(MutKeys(nm - 1), names)),
        Patient(MutKeys(nm - 1), names, full, full),
        Patient(MutKeys(nm + 1), names, full, full),
        Patient(keys, SampleNames(s - 1), full, full)}

EdgePhylogenies ==
    {[kind |-> "CompatiblePhylogeny", conflicting_mutations |-> l] :
         l \in Seqs(EdgeIndices, 0, MaxEdge)}
    \cup {[kind |-> "ResolvedPhylogeny",
           incompatible_positions |-> <<[key |-> k, val |-> v, order |-> o]>>] :
              k \in EdgeIndices,
              <<v, o>> \in {<<w, l>> \in (SUBSET {-2, 0, 1, 8}) \X Seqs({-2, 0, 1, 8}, 0, MaxEdge) :
                                /\ Len(l) = Cardinality(w)
                                /\ \A x \in w : \E i \in 1..Len(l) : l[i] = x}}
    \cup {[kind |-> "MaxLHPhylogeny",
           false_positives |-> <<[key |-> k, val |-> v, order |-> Ascending(v)]>>,
           false_negatives |-> <<>>] :
              k \in EdgeIndices, v \in SUBSET (0..1)}

InitEdgeHinton ==
    /\ pc = "call"
    /\ fig = NoFigure
    /\ \E data \in EdgeData :
       \E displayed_mutations \in OptLists(EdgeIndices, MaxEdge) :
       \E column_labels \in OptLists(EdgeNames, MaxEdge) :
       \E row_labels \in {None, Some(SampleNames(1))} :
         call = [fn |-> "hinton", data |-> data, row_labels |-> row_labels,
                 column_labels |-> column_labels,
                 displayed_mutations |-> displayed_mutations]

InitEdgeClustered ==
    /\ pc = "call"
    /\ fig = NoFigure
    /\ \E data \in EdgeData :
       \E displayed_mutations \in OptLists(EdgeIndices, 1) :
       \E gene_names \in Seqs(EdgeNames, 0, MaxEdge) :
       \E n \in 0..MaxEdge :
       \E leaves \in LeafOrders(n) :
       \E row_labels \in {None} \cup {Some(SampleNames(r)) : r \in 1..MaxEdge} :
       \E column_labels \in {None, Some(gene_names)} :
         call = [fn |-> "clustered_table", data |-> data,
                 sample_names |-> SampleNames(n), gene_names |-> gene_names,
                 leaves |-> leaves, row_labels |-> row_labels,
                 column_labels |-> column_labels,
                 displayed_mutations |-> displayed_mutations]

InitEdgeMpTable ==
    /\ pc = "call"
    /\ fig = NoFigure
    /\ \E data \in EdgeData :
       \E phylogeny \in EdgePhylogenies :
       \E column_labels \in {None, Some(<<>>), Some(<<LongName>>),
                              Some(<<<<"a">>, LongName>>), Some(<<LongName, <<"a">>>>)} :
       \E patient \in EdgePatients(data) :
         call = [fn |-> "create_incompatible_mp_table", data |-> data,
                 mut_keys |-> patient.mut_keys, sample_names |-> patient.sample_names,
                 mut_reads |-> patient.mut_reads,
                 phred_coverage |-> patient.phred_coverage,
                 phylogeny |-> phylogeny, row_labels |-> None,
                 column_labels |-> column_labels]

InitEdge == InitEdgeHinton \/ InitEdgeClustered \/ InitEdgeMpTable

SpecEdge == InitEdge /\ [][NextTables]_vars

(***************************************************************************)
(* The figures that are not tables: boxplot, reads_plot,                   *)
(* p_value_present_plot, p_value_absent_plot and robustness_plot.  A       *)
(* patient's dictionaries are lists of entries [key, val] in the order     *)
(* iterating over them yields the keys.  Coordinates are exact fractions.  *)
(***************************************************************************)
MaxPlotS == 2

MaxPlotLen == 2

\* str(n) for n >= 0
IntStr(n) ==
    LET Digit(d) == <<"0", "1", "2", "3", "4", "5", "6", "7", "8", "9">>[d + 1]
        RECURSIVE Digits(_)
        Digits(m) == IF m < 10 THEN <<Digit(m)>> ELSE Digits(m \div 10) \o <<Digit(m % 10)>>
    IN Digits(n)

\* gene_name[n:] for n >= 0
Suffix(s, n) == SubSeq(s, n + 1, Len(s))

\* the sample names of a patient: a prefix of five characters, then the name
PlotSampleNames(n) ==
    SubSeq(<<<<"P", "a", "m", "0", "1", "N", "_", "1">>, <<"L", "N">>>>, 1, n)

\* dictionaries over the first n sample names, a list from Lists for each
SampleDicts(n, Lists) ==
    {[i \in 1..n |-> [key |-> PlotSampleNames(n)[i], val |-> vals[i]]] :
         vals \in [1..n -> Lists]}

BoxplotCountY == 93

BoxplotCoverageY == 89

BoxplotMinCoverage == 50

\* numpy.median of a list of integers, doubled; the median of no value is nan
TwiceMedian(values) ==
    LET sorted == SortedByKey(values, [i \in 1..Len(values) |-> <<values[i]>>])
        n == Len(values)
    IN IF n % 2 = 1 THEN 2 * sorted[(n + 1) \div 2]
       ELSE sorted[n \div 2] + sorted[n \div 2 + 1]

\* line 299: '{}x'.format(np.median(...)), the median being a float
BoxplotCoverageText(values) ==
    IF values = <<>> THEN <<"n", "a", "n", "x">>
    ELSE IntStr(TwiceMedian(values) \div 2)
             \o <<".", IF TwiceMedian(values) % 2 = 0 THEN "0" ELSE "5", "x">>

\* lines 281-283: patient.sample_mafs[sample_name] raises KeyError
BoxplotDataError(sample_names, sample_mafs) ==
    \E i \in 1..Len(sample_names) : ~HasKey(sample_mafs, sample_names[i])

\* line 299: patient.sample_phred_coverages[sample_name] raises KeyError
BoxplotCoverageError(sample_names, sample_phred_coverages) ==
    \E i \in 1..Len(sample_names) : ~HasKey(sample_phred_coverages, sample_names[i])

\* lines 296-298: the number of mutations written over each box, up to the
\* first sample whose coverage is missing
BoxplotCountTexts(sample_names, sample_mafs, sample_phred_coverages) ==
    {[sa_idx |-> sa_idx, x |-> Rat(sa_idx + 1, 1), y |-> Rat(BoxplotCountY, 100),
      text |-> IntStr(Len(Get(sample_mafs, At(sample_names, sa_idx)))),
      color |-> "#707070"] :
        sa_idx \in {i \in 0..(Len(sample_names) - 1) :
                        \A j \in 0..(i - 1) :
                            HasKey(sample_phred_coverages, At(sample_names, j))}}

\* lines 299-301: the median coverage written over each box, up to the first
\* sample whose coverage is missing
BoxplotCoverageTexts(sample_names, sample_phred_coverages) ==
    {[sa_idx |-> sa_idx, x |-> Rat(sa_idx + 1, 1), y |-> Rat(BoxplotCoverageY, 100),
      text |-> BoxplotCoverageText(Get(sample_phred_coverages, At(sample_names, sa_idx))),
      color |-> LET values == Get(sample_phred_coverages, At(sample_names, sa_idx))
                IN IF values # <<>> /\ TwiceMedian(values) >= 2 * BoxplotMinCoverage
                   THEN "#707070"
                   ELSE "red"] :
        sa_idx \in {i \in 0..(Len(sample_names) - 1) :
                        \A j \in 0..i :
                            HasKey(sample_phred_coverages, At(sample_names, j))}}

InitBoxplot ==
    /\ pc = "call"
    /\ fig = NoFigure
    /\ \E n \in 0..MaxPlotS, nm \in 0..MaxPlotS, nc \in 0..MaxPlotS :
       \E sample_mafs \in SampleDicts(nm, Seqs({0}, 0, MaxPlotLen)) :
       \E sample_phred_coverages \in SampleDicts(nc, Seqs({30, 50, 71}, 0, MaxPlotLen)) :
         call = [fn |-> "boxplot", sample_names |-> PlotSampleNames(n),
                 sample_mafs |-> sample_mafs,
                 sample_phred_coverages |-> sample_phred_coverages]

Boxplot ==
    /\ pc = "call"
    /\ call.fn = "boxplot"
    /\ IF BoxplotDataError(call.sample_names, call.sample_mafs)
       THEN fig' = [fig EXCEPT !.created = TRUE, !.raised = TRUE, !.exception = "KeyError"]
       ELSE \E texts \in
                   {BoxplotCountTexts(call.sample_names, call.sample_mafs,
                                      call.sample_phred_coverages)
                    \cup BoxplotCoverageTexts(call.sample_names,
                                              call.sample_phred_coverages)} :
              IF BoxplotCoverageError(call.sample_names, call.sample_phred_coverages)
              THEN fig' = [fig EXCEPT !.created = TRUE, !.texts = texts, !.raised = TRUE,
                                      !.exception = "KeyError"]
              ELSE fig' = [fig EXCEPT !.created = TRUE, !.texts = texts,
                                      !.saved = {"file"}, !.log = <<"info">>]
    /\ pc' = "done"
    /\ UNCHANGED call

(***************************************************************************)
(* reads_plot, p_value_present_plot and p_value_absent_plot read the       *)
(* patient's tables of read counts: mut_reads and phred_coverage hold one  *)
(* row per mutation key and, in a row, one count per sample in the order   *)
(* of the sample names; a missing row or count is a missing key.           *)
(***************************************************************************)
\* num / den for any den but 0
Quotient(num, den) == IF den < 0 THEN Rat(-num, -den) ELSE Rat(num, den)

\* table[mut_key][sample_name] does not raise KeyError
HasCount(table, m, sa_idx) == m <= Len(table) /\ sa_idx < Len(table[m])

\* the cells of mut_reads in the order the two loops visit them
ReadCells(mut_reads) ==
    LET RECURSIVE Upto(_)
        Upto(m) == IF m = 0 THEN <<>>
                   ELSE Upto(m - 1) \o [i \in 1..Len(mut_reads[m]) |->
                                            [m |-> m, sa_idx |-> i - 1]]
    IN Upto(Len(mut_reads))

ReadsPlotLabelX == 13

ReadsPlotLabelY == 5000

ReadsPlotLabelStep == 17

ReadsPlotPrefix == 5

\* lines 453, 479: plt.cm.jet(1. * sa_idx / (patient.n - 1))
JetOfSample(sa_idx, n) == [cm |-> "jet", value |-> Quotient(sa_idx, n - 1)]

\* lines 441-453: a coverage is missing (KeyError at line 444), or
\* patient.n - 1 is 0 (ZeroDivisionError at line 453), for some cell of
\* mut_reads; with patient.n = 1 the first cell raises, one or the other
ReadsPlotCellsRaise(mut_reads, phred_coverage, n) ==
    \E i \in 1..Len(ReadCells(mut_reads)) :
        \/ ~HasCount(phred_coverage, ReadCells(mut_reads)[i].m, ReadCells(mut_reads)[i].sa_idx)
        \/ n = 1

\* lines 441-455: the points handed to plt.scatter
ReadsPlotPoints(mut_reads, phred_coverage, n) ==
    [i \in 1..Len(ReadCells(mut_reads)) |->
         LET c == ReadCells(mut_reads)[i]
             cov == phred_coverage[c.m][c.sa_idx + 1]
             reads == mut_reads[c.m][c.sa_idx + 1]
         IN [x |-> Rat(IF cov > 0 THEN cov ELSE 1, 1),
             y |-> Rat(IF reads # 0 THEN reads ELSE 1, 1),
             color |-> JetOfSample(c.sa_idx, n)]]

\* lines 474-480: the sample names, each 1.7 times lower than the one before
ReadsPlotTexts(sample_names, n) ==
    {[sa_idx |-> sa_idx, x |-> Rat(ReadsPlotLabelX, 10),
      y |-> Rat(ReadsPlotLabelY * Pow(10, sa_idx), Pow(ReadsPlotLabelStep, sa_idx)),
      text |-> Suffix(At(sample_names, sa_idx), ReadsPlotPrefix),
      color |-> JetOfSample(sa_idx, n)] :
        sa_idx \in 0..(Len(sample_names) - 1)}

\* tables of read counts over nm mutations and at most s samples
ReadTables(nm, s, Counts) == [1..nm -> Seqs(Counts, 0, s)]

InitReadsPlot ==
    /\ pc = "call"
    /\ fig = NoFigure
    /\ \E names \in 0..MaxPlotS, n \in 0..(MaxPlotS + 1), nm \in 0..MaxPlotS,
          nc \in 0..MaxPlotS :
       \E mut_reads \in ReadTables(nm, MaxPlotS, {0, 2}) :
       \E phred_coverage \in ReadTables(nc, MaxPlotS, {0, 3}) :
         call = [fn |-> "reads_plot", sample_names |-> PlotSampleNames(names), n |-> n,
                 mut_reads |-> mut_reads, phred_coverage |-> phred_coverage]

ReadsPlot ==
    /\ pc = "call"
    /\ call.fn = "reads_plot"
    /\ IF ReadsPlotCellsRaise(call.mut_reads, call.phred_coverage, call.n)
       THEN fig' = [fig EXCEPT
                      !.created = TRUE, !.raised = TRUE,
                      !.exception =
                          LET first == ReadCells(call.mut_reads)[1]
                          IN IF call.n = 1 /\ HasCount(call.phred_coverage, first.m, first.sa_idx)
                             THEN "ZeroDivisionError"
                             ELSE "KeyError"]
       ELSE \E points \in {ReadsPlotPoints(call.mut_reads, call.phred_coverage, call.n)} :
              IF call.sample_names # <<>> /\ call.n = 1
              THEN fig' = [fig EXCEPT !.created = TRUE, !.points = points,
                                      !.raised = TRUE, !.exception = "ZeroDivisionError"]
              ELSE fig' = [fig EXCEPT !.created = TRUE, !.points = points,
                                      !.texts = ReadsPlotTexts(call.sample_names, call.n),
                                      !.saved = {"file"}, !.log = <<"info">>]
    /\ pc' = "done"
    /\ UNCHANGED call

(***************************************************************************)
(* The two p-value figures.  calculate_present_pvalue and                  *)
(* calculate_absent_pvalue belong to utils.statistics; a point keeps the   *)
(* arguments of the call whose result it shows, and the result may be one  *)
(* math.log rejects with ValueError (a p-value of 0).                      *)
(***************************************************************************)
PValueLabelX == -56

PValueLabelOffset == 1

PValuePrefix == 5

\* lines 501-503: a mutant read count above 0 whose coverage is missing
PresentPlotKeyError(mut_reads, phred_coverage) ==
    \E i \in 1..Len(ReadCells(mut_reads)) :
        LET c == ReadCells(mut_reads)[i]
        IN mut_reads[c.m][c.sa_idx + 1] > 0 /\ ~HasCount(phred_coverage, c.m, c.sa_idx)

\* lines 499-509: the points handed to plt.scatter
PresentPlotPoints(mut_reads, phred_coverage, n) ==
    LET shown == SelectSeq(ReadCells(mut_reads),
                           LAMBDA c : mut_reads[c.m][c.sa_idx + 1] > 0)
    IN [i \in 1..Len(shown) |->
            [x |-> [kind |-> "log10", of |-> "calculate_present_pvalue",
                    reads |-> mut_reads[shown[i].m][shown[i].sa_idx + 1],
                    coverage |-> phred_coverage[shown[i].m][shown[i].sa_idx + 1]],
             y |-> Rat(n - shown[i].sa_idx, 1)]]

\* lines 518-520: the sample names left of the rows, without their prefix
PresentPlotTexts(sample_names, n) ==
    {[sa_idx |-> sa_idx, x |-> Rat(PValueLabelX, 10),
      y |-> Rat(10 * (n - sa_idx) - PValueLabelOffset, 10),
      text |-> Suffix(At(sample_names, sa_idx), PValuePrefix),
      color |-> "black"] :
        sa_idx \in 0..(Len(sample_names) - 1)}

InitPresentPlot ==
    /\ pc = "call"
    /\ fig = NoFigure
    /\ \E names \in 0..MaxPlotS, n \in 0..MaxPlotS, nm \in 0..MaxPlotS, nc \in 0..MaxPlotS :
       \E mut_reads \in ReadTables(nm, MaxPlotS, {0, 2}) :
       \E phred_coverage \in ReadTables(nc, MaxPlotS, {0, 3}) :
         call = [fn |-> "p_value_present_plot", sample_names |-> PlotSampleNames(names),
                 n |-> n, mut_reads |-> mut_reads, phred_coverage |-> phred_coverage]

PValuePresentPlot ==
    /\ pc = "call"
    /\ call.fn = "p_value_present_plot"
    /\ LET cells == ReadCells(call.mut_reads)
           Counted(i) == call.mut_reads[cells[i].m][cells[i].sa_idx + 1] > 0
           Missing(i) == /\ Counted(i)
                         /\ ~HasCount(call.phred_coverage, cells[i].m, cells[i].sa_idx)
       IN \/ /\ PresentPlotKeyError(call.mut_reads, call.phred_coverage)
             /\ fig' = [fig EXCEPT !.created = TRUE, !.raised = TRUE,
                                   !.exception = "KeyError"]
          \/ /\ ~PresentPlotKeyError(call.mut_reads, call.phred_coverage)
             /\ fig' = [fig EXCEPT
                          !.created = TRUE,
                          !.points = PresentPlotPoints(call.mut_reads, call.phred_coverage,
                                                       call.n),
                          !.texts = PresentPlotTexts(call.sample_names, call.n),
                          !.saved = {"file"}, !.log = <<"info">>]
          \* math.log raises ValueError for a p-value of 0, at a cell reached
          \* before the first whose coverage is missing
          \/ /\ \E i \in 1..Len(cells) :
                    Counted(i) /\ \A j \in 1..i : ~Missing(j)
             /\ fig' = [fig EXCEPT !.created = TRUE, !.raised = TRUE,
                                   !.exception = "ValueError"]
    /\ pc' = "done"
    /\ UNCHANGED call

\* the cells the two loops of p_value_absent_plot visit, in order
AbsentCells(nkeys, nsamples) ==
    [i \in 1..(nkeys * nsamples) |->
         [m |-> (i - 1) \div nsamples + 1, sa_idx |-> (i - 1) % nsamples]]

\* lines 541-556: the points handed to plt.scatter
AbsentPlotPoints(data, mut_reads, phred_coverage, nsamples, n) ==
    LET shown == SelectSeq(AbsentCells(Len(mut_reads), nsamples),
                           LAMBDA c : data[c.m][c.sa_idx + 1] <= 0)
    IN [i \in 1..Len(shown) |->
            [x |-> [kind |-> "log10", of |-> "calculate_absent_pvalue",
                    reads |-> mut_reads[shown[i].m][shown[i].sa_idx + 1],
                    coverage |-> phred_coverage[shown[i].m][shown[i].sa_idx + 1]],
             y |-> Rat(n - shown[i].sa_idx, 1)]]

\* lines 565-567: the sample names left of the rows
AbsentPlotTexts(sample_names, n) ==
    {[sa_idx |-> sa_idx, x |-> Rat(PValueLabelX, 10),
      y |-> Rat(10 * (n - sa_idx) - PValueLabelOffset, 10),
      text |-> Replace(At(sample_names, sa_idx), "_", <<" ">>),
      color |-> "black"] :
        sa_idx \in 0..(Len(sample_names) - 1)}

InitAbsentPlot ==
    /\ pc = "call"
    /\ fig = NoFigure
    /\ \E names \in 0..MaxPlotS, n \in 0..MaxPlotS, nm \in 0..MaxPlotS, nc \in 0..MaxPlotS,
          nd \in 0..MaxPlotS :
       \E mut_reads \in ReadTables(nm, MaxPlotS, {2}) :
       \E phred_coverage \in ReadTables(nc, MaxPlotS, {3}) :
       \E data \in ReadTables(nd, MaxPlotS, {0, 1}) :
         call = [fn |-> "p_value_absent_plot", sample_names |-> PlotSampleNames(names),
                 n |-> n, data |-> data,
                 mut_reads |-> mut_reads, phred_coverage |-> phred_coverage]

PValueAbsentPlot ==
    /\ pc = "call"
    /\ call.fn = "p_value_absent_plot"
    /\ LET cells == AbsentCells(Len(call.mut_reads), Len(call.sample_names))
           Unclassified(i) == ~HasCount(call.data, cells[i].m, cells[i].sa_idx)
           Shown(i) == /\ ~Unclassified(i)
                       /\ call.data[cells[i].m][cells[i].sa_idx + 1] <= 0
           Missing(i) ==
               /\ Shown(i)
               /\ ~(HasCount(call.mut_reads, cells[i].m, cells[i].sa_idx)
                      /\ HasCount(call.phred_coverage, cells[i].m, cells[i].sa_idx))
           failing == {i \in 1..Len(cells) : Unclassified(i) \/ Missing(i)}
       IN \/ /\ failing # {}
             /\ fig' = [fig EXCEPT
                          !.created = TRUE, !.raised = TRUE,
                          !.exception =
                              IF Unclassified(CHOOSE i \in failing : \A j \in failing : i <= j)
                              THEN "IndexError"
                              ELSE "KeyError"]
          \/ /\ failing = {}
             /\ fig' = [fig EXCEPT
                          !.created = TRUE,
                          !.points = AbsentPlotPoints(call.data, call.mut_reads,
                                                      call.phred_coverage,
                                                      Len(call.sample_names), call.n),
                          !.texts = AbsentPlotTexts(call.sample_names, call.n),
                          !.saved = {"file"}, !.log = <<"info">>]
          \* math.log raises ValueError for a p-value of 0, at a cell reached
          \* before the first that fails
          \/ /\ \E i \in 1..Len(cells) : Shown(i) /\ \A j \in 1..i : j \notin failing
             /\ fig' = [fig EXCEPT !.created = TRUE, !.raised = TRUE,
                                   !.exception = "ValueError"]
    /\ pc' = "done"
    /\ UNCHANGED call

(***************************************************************************)
(* robustness_plot.  comp_node_frequencies maps a fraction of the variants *)
(* (in per cent) to a dictionary from mutation pattern to the frequency    *)
(* (in hundredths) with which the pattern was reproduced.  The interpreter *)
(* is Python 3, where itertools.cycle has no method next.                  *)
(***************************************************************************)
\* sorted(d.items(), key=lambda k: -k[1])
ByFrequency(items) == SortedByKey(items, [i \in 1..Len(items) |-> <<-items[i].val>>])

\* sorted(comp_node_frequencies.keys())
SortedFractions(cnf) == SortedByKey(Keys(cnf), [i \in 1..Len(cnf) |-> <<cnf[i].key>>])

\* lines 593-595: the patterns of the smallest fraction, most frequent first;
\* the id of a pattern is its position
RobustnessPatterns(cnf) == Keys(ByFrequency(Get(cnf, SortedFractions(cnf)[1])))

RobustnessId(cnf, node) ==
    (CHOOSE i \in 1..Len(RobustnessPatterns(cnf)) : RobustnessPatterns(cnf)[i] = node) - 1

\* lines 598-599: the passes of the inner loop, in order: f is the position of
\* the fraction among the sorted fractions
RobustnessVisits(cnf) ==
    LET RECURSIVE Upto(_)
        Upto(f) ==
            IF f = 0 THEN <<>>
            ELSE LET items == ByFrequency(Get(cnf, SortedFractions(cnf)[f]))
                 IN Upto(f - 1) \o [i \in 1..Len(items) |->
                                        [f |-> f, node |-> items[i].key, freq |-> items[i].val]]
    IN Upto(Len(cnf))

\* lines 604-605: the pattern was also reproduced with the fraction before
RobustnessJoins(cnf, v) ==
    v.f > 1 /\ HasKey(Get(cnf, SortedFractions(cnf)[v.f - 1]), v.node)

\* line 601: mp_ids[node] raises KeyError; line 610: the fraction has a single
\* pattern and the colour of its segment divides by 0
RobustnessVisitFails(cnf, v) ==
    \/ \A i \in 1..Len(RobustnessPatterns(cnf)) : RobustnessPatterns(cnf)[i] # v.node
    \/ RobustnessJoins(cnf, v) /\ Len(Get(cnf, SortedFractions(cnf)[v.f])) = 1

\* the visits made before the first that fails
RobustnessCompleted(cnf) ==
    SelectSeq([i \in 1..Len(RobustnessVisits(cnf)) |->
                   [RobustnessVisits(cnf)[i] EXCEPT
                      !.f = IF \E j \in 1..i : RobustnessVisitFails(cnf, RobustnessVisits(cnf)[j])
                            THEN 0 ELSE @]],
              LAMBDA v : v.f > 0)

\* lines 604-610: the segments handed to plt.plot
RobustnessLines(cnf) ==
    LET joined == SelectSeq(RobustnessCompleted(cnf), LAMBDA v : RobustnessJoins(cnf, v))
    IN [i \in 1..Len(joined) |->
            LET v == joined[i]
                last_fraction == SortedFractions(cnf)[v.f - 1]
                sample_fraction == SortedFractions(cnf)[v.f]
            IN [x1 |-> Rat(last_fraction, 100), x2 |-> Rat(sample_fraction, 100),
                y1 |-> Rat(Get(Get(cnf, last_fraction), v.node), 100),
                y2 |-> Rat(v.freq, 100),
                color |-> [cm |-> "jet",
                           value |-> Quotient(RobustnessId(cnf, v.node),
                                              Len(Get(cnf, sample_fraction)) - 1)]]]

\* lines 601-610: a pass of the loops raises; lines 616-618: the first
\* plt.scatter is never made, its colour divides by 0 for a single pattern
\* and markers.next() raises AttributeError otherwise
RobustnessRaises(cnf) ==
    \/ \E i \in 1..Len(RobustnessVisits(cnf)) :
           RobustnessVisitFails(cnf, RobustnessVisits(cnf)[i])
    \/ RobustnessPatterns(cnf) # <<>>

\* the exception that ends the call: that of the first pass that fails
\* (KeyError at line 601 before ZeroDivisionError at line 610), else that of
\* the first plt.scatter, where len(x_values.keys()) is the number of patterns
RobustnessException(cnf) ==
    LET visits == RobustnessVisits(cnf)
        failing == {i \in 1..Len(visits) : RobustnessVisitFails(cnf, visits[i])}
    IN IF failing # {}
       THEN LET v == visits[CHOOSE i \in failing : \A j \in failing : i <= j]
            IN IF \A i \in 1..Len(RobustnessPatterns(cnf)) : RobustnessPatterns(cnf)[i] # v.node
               THEN "KeyError"
               ELSE "ZeroDivisionError"
       ELSE IF Len(RobustnessPatterns(cnf)) = 1 THEN "ZeroDivisionError"
       ELSE "AttributeError"

\* dictionaries from mutation pattern (a tuple of sample indices) to
\* frequency (in hundredths), in every insertion order
NodeFrequencies ==
    {d \in Seqs([key : {<<0>>, <<0, 1>>}, val : {50, 100}], 0, MaxPlotLen) :
         \A i, j \in 1..Len(d) : d[i].key = d[j].key => i = j}

InitRobustnessPlot ==
    /\ pc = "call"
    /\ fig = NoFigure
    /\ \E cnf \in Seqs([key : {50, 80, 100}, val : NodeFrequencies], 0, MaxPlotLen + 1) :
         /\ \A i, j \in 1..Len(cnf) : cnf[i].key = cnf[j].key => i = j
         /\ call = [fn |-> "robustness_plot", comp_node_frequencies |-> cnf]

RobustnessPlot ==
    /\ pc = "call"
    /\ call.fn = "robustness_plot"
    /\ \E cnf \in {call.comp_node_frequencies} :
         IF cnf = <<>>
         THEN fig' = [fig EXCEPT !.created = TRUE, !.raised = TRUE,
                                 !.exception = "ValueError"]
         ELSE IF RobustnessRaises(cnf)
         THEN fig' = [fig EXCEPT !.created = TRUE, !.lines = RobustnessLines(cnf),
                                 !.raised = TRUE, !.exception = RobustnessException(cnf)]
         ELSE fig' = [fig EXCEPT !.created = TRUE, !.saved = {"file"}, !.log = <<"info">>]
    /\ pc' = "done"
    /\ UNCHANGED call

InitPlots ==
    InitBoxplot \/ InitReadsPlot \/ InitPresentPlot \/ InitAbsentPlot \/ InitRobustnessPlot

NextPlots == Boxplot \/ ReadsPlot \/ PValuePresentPlot \/ PValueAbsentPlot \/ RobustnessPlot

SpecPlots == InitPlots /\ [][NextPlots]_vars

(***************************************************************************)
(* Every call of every function.                                           *)
(***************************************************************************)
Init == InitTables \/ InitMpReads \/ InitFormat \/ InitEdge \/ InitPlots

Next ==
    \/ Hinton \/ CreateIncompatibleMpTable \/ ClusteredTable \/ FormatGeneNameCall
    \/ Boxplot \/ ReadsPlot \/ PValuePresentPlot \/ PValueAbsentPlot \/ RobustnessPlot

Spec == Init /\ [][Next]_vars

(***************************************************************************)
(* Reading a finished call.                                                *)
(***************************************************************************)
Done == pc = "done"

DoneTable(fns) == pc = "done" /\ call.fn \in fns /\ ~fig.raised /\ fig.created

\* the list of displayed mutations the call worked on
DisplayedList ==
    IF call.fn = "create_incompatible_mp_table"
    THEN MpDisplayedMutations(call.data, call.phylogeny)
    ELSE IF call.displayed_mutations.given THEN call.displayed_mutations.val
    ELSE Range(Len(call.data))

\* the rank class of a state: present 2, either ambiguous state 1, absent 0
Rank(maf) == IF maf > 0 THEN 2 ELSE IF maf \in {POS_UNKNOWN, NEG_UNKNOWN} THEN 1 ELSE 0

\* the sample read at position i of the effective sample order
EffectiveSample(i) ==
    IF call.fn = "clustered_table" THEN At(Reversed(call.leaves), i) ELSE i

\* v and w first differ in rank class at some position of the effective order,
\* and v ranks higher there
FirstDiffHigher(v, w) ==
    \E i \in 0..(Len(v) - 1) :
        /\ \A j \in 0..(i - 1) :
               Rank(At(v, EffectiveSample(j))) = Rank(At(w, EffectiveSample(j)))
        /\ Rank(At(v, EffectiveSample(i))) > Rank(At(w, EffectiveSample(i)))

\* the priority as the specification words it: weight 3, 1, 0 times 4^(S - i - 1)
StatedPriority(v) ==
    SumOf([n \in 1..Len(v) |->
               LET i == n - 1
               IN (CASE Rank(At(v, EffectiveSample(i))) = 2 -> 3
                 [] Rank(At(v, EffectiveSample(i))) = 1 -> 1
                 [] OTHER -> 0) * (4 ^ (Len(v) - i - 1))])

\* the mutations that occur exactly once in the displayed list
DisplayedOnce == {m \in 0..(Len(call.data) - 1) : Occurrences(DisplayedList, m) = 1}

\* the columns of the drawn table and the mutation each column shows
Columns == {c.x_pos : c \in fig.cells}

ColMut(x) == CHOOSE m \in {c.mut_idx : c \in {d \in fig.cells : d.x_pos = x}} : TRUE

\* the display names the sort falls back on, when the call has any
HasNames == call.fn = "clustered_table" \/ call.column_labels.given

NameOf(m) == IF call.fn = "clustered_table" THEN At(call.gene_names, m)
             ELSE At(call.column_labels.val, m)

NameLeq(a, b) == ~KeyLess(Ords(b), Ords(a))

(***************************************************************************)
(* C1                                                                      *)
(***************************************************************************)
\* C1: for two state vectors of the same length that hinton or clustered_table
\* ranks (each displayed once), the priority of each is the stated sum, and the
\* vector that ranks higher at the first position where their rank classes
\* differ (in the effective sample order) has the strictly greater priority.
C1_PriorityIsLexicographic ==
    DoneTable({"hinton", "clustered_table"}) =>
        \A m \in DisplayedOnce :
            /\ At(fig.priorities, m) = StatedPriority(At(call.data, m))
            /\ \A m2 \in DisplayedOnce :
                   (/\ Len(At(call.data, m)) = Len(At(call.data, m2))
                    /\ FirstDiffHigher(At(call.data, m), At(call.data, m2)))
                   => At(fig.priorities, m) > At(fig.priorities, m2)

\* clustered_table read two vectors in a leaf order that reverses their ranking:
\* in declared order mutation 0 would rank first, in leaf order mutation 1 does
C1_Witness ==
    /\ DoneTable({"clustered_table"})
    /\ call.data = <<<<1, POS_UNKNOWN>>, <<0, 1>>>>
    /\ call.leaves = <<0, 1>>
    /\ ~call.displayed_mutations.given
    /\ fig.priorities = <<7, 12>>
    /\ FirstDiffHigher(call.data[2], call.data[1])

(***************************************************************************)
(* C2                                                                      *)
(***************************************************************************)
ScenarioA == <<<<1, 0>>, <<0, 1>>, <<POS_UNKNOWN, 0>>>>

\* C2: hinton and clustered_table give every entry of the displayed list one
\* column; left to right the priorities never increase, and columns of equal
\* priority are in ascending order of display name; scenario A is drawn in the
\* order mutation 0, mutation 2, mutation 1 with priorities 12, 4 and 3.
C2_ColumnsByPriorityThenName ==
    DoneTable({"hinton", "clustered_table"}) =>
        /\ Columns = {x \in 0..(Len(DisplayedList) - 1) : Len(At(call.data, At(DisplayedList, x))) > 0}
        /\ \A m \in 0..(Len(call.data) - 1) :
               Len(At(call.data, m)) > 0 =>
                   Cardinality({x \in Columns : ColMut(x) = m}) = Occurrences(DisplayedList, m)
        /\ \A x, x2 \in Columns :
               x < x2 =>
                   \/ At(fig.priorities, ColMut(x)) > At(fig.priorities, ColMut(x2))
                   \/ /\ At(fig.priorities, ColMut(x)) = At(fig.priorities, ColMut(x2))
                      /\ HasNames => NameLeq(NameOf(ColMut(x)), NameOf(ColMut(x2)))
        /\ (/\ call.fn = "hinton"
            /\ call.data = ScenarioA
            /\ ~call.column_labels.given
            /\ ~call.displayed_mutations.given)
           => /\ fig.priorities = <<12, 3, 4>>
              /\ ColMut(0) = 0 /\ ColMut(1) = 2 /\ ColMut(2) = 1

\* hinton drew scenario A
C2_Witness ==
    /\ DoneTable({"hinton"})
    /\ call.data = ScenarioA
    /\ ~call.column_labels.given
    /\ ~call.displayed_mutations.given
    /\ Columns = {0, 1, 2}

(***************************************************************************)
(* C3                                                                      *)
(***************************************************************************)
\* C3: in hinton without column_labels, two displayed mutations of equal
\* priority appear in ascending order of mutation index, whatever displayed
\* list the caller passed.
C3_TiesByMutationIndex ==
    (DoneTable({"hinton"}) /\ ~call.column_labels.given) =>
        \A x, x2 \in Columns :
            (x < x2 /\ At(fig.priorities, ColMut(x)) = At(fig.priorities, ColMut(x2)))
            => ColMut(x) <= ColMut(x2)

(***************************************************************************)
(* C4                                                                      *)
(***************************************************************************)
\* C4: in every table renderer that wrote column labels, each column has one
\* label, and the label at column x is the formatted name of the mutation whose
\* cells are drawn at column x.
C4_LabelsFollowCells ==
    (DoneTable({"hinton", "create_incompatible_mp_table", "clustered_table"})
     /\ call.column_labels.given) =>
        /\ {t.x_pos : t \in fig.col_texts} = 0..(Len(DisplayedList) - 1)
        /\ \A t, u \in fig.col_texts : t.x_pos = u.x_pos => t = u
        /\ \A t \in fig.col_texts :
               /\ t.text = FormatGeneName(NameOf(t.mut_idx), 12)
               /\ \A c \in fig.cells : c.x_pos = t.x_pos => c.mut_idx = t.mut_idx

\* hinton labelled two columns of equal priority and equal name, passed in
\* descending index order
C4_Witness ==
    /\ DoneTable({"hinton"})
    /\ call.column_labels.given
    /\ call.displayed_mutations.given
    /\ call.displayed_mutations.val = <<1, 0>>
    /\ At(fig.priorities, 0) = At(fig.priorities, 1)
    /\ NameOf(0) = NameOf(1)
    /\ Cardinality(fig.col_texts) = 2
    /\ Columns = {0, 1}

(***************************************************************************)
(* C5                                                                      *)
(***************************************************************************)
\* the external leaf order, read top to bottom
LeafOrder == Reversed(call.leaves)

\* C5: in clustered_table over as many samples as the leaf order has, the cells
\* of row p (rows counted from the top) show the states of the sample at
\* position p of the leaf order, and the label of row p is the name of that same
\* sample, written at the height of that row; leaf order C, A, B over declared
\* A, B, C puts C in the top row, then A, then B, labelled C, A, B.
C5_RowsFollowLeafOrder ==
    (DoneTable({"clustered_table"})
     /\ \A m \in 1..Len(call.data) : Len(call.data[m]) = Len(call.leaves)) =>
        /\ \A c \in fig.cells :
               /\ c.sa_idx = At(LeafOrder, c.row)
               /\ c.color = ClusteredColor(At(At(call.data, c.mut_idx), At(LeafOrder, c.row)))
               /\ \A d \in fig.cells : (c.row < d.row) <=> (c.y > d.y)
        /\ \A t \in fig.row_texts :
               /\ t.text = At(call.sample_names, At(LeafOrder, t.row))
               /\ \A c \in fig.cells :
                      c.row = t.row <=> (c.y <= t.y /\ t.y < c.y + 10 * ClusteredHeight)
        /\ call.row_labels.given => {t.row : t \in fig.row_texts} = 0..(Len(call.leaves) - 1)
        /\ (call.row_labels.given /\ LeafOrder = <<2, 0, 1>>) =>
               \E top, mid, bot \in fig.row_texts :
                   /\ top.text = <<"C">> /\ mid.text = <<"A">> /\ bot.text = <<"B">>
                   /\ top.y > mid.y /\ mid.y > bot.y

\* clustered_table drew and labelled three samples in the leaf order C, A, B
C5_Witness ==
    /\ DoneTable({"clustered_table"})
    /\ LeafOrder = <<2, 0, 1>>
    /\ call.row_labels.given
    /\ Len(call.data[1]) = 3
    /\ Cardinality(fig.row_texts) = 3
    /\ \E c, d \in fig.cells : c.row = 0 /\ c.sa_idx = 2 /\ d.row = 1 /\ d.sa_idx = 0
                               /\ c.color # d.color

(***************************************************************************)
(* C6                                                                      *)
(***************************************************************************)
ScenarioC == Done /\ call.fn = "_format_gene_name" /\ call.gene_name = BRCA1Isoform
             /\ call.max_length = 12

\* C6 as stated: the gene name of scenario C with max_length 12 is formatted
\* to BRCA1.
C6_ScenarioCGivesBRCA1 ==
    ScenarioC => fig.ret.val = <<"B", "R", "C", "A", "1">>

\* C6 as amended: the gene name of scenario C with max_length 12 is formatted
\* to BRCA1,isofor: its comma is at index 5, before index 6, so the name is not
\* cut at the comma, and the 14 characters left are cut to 12.
C6_ScenarioCGivesBRCA1isofor ==
    ScenarioC =>
        /\ Find(RemoveQuotes(RemoveSpaces(call.gene_name)), ",", 0) = 5
        /\ fig.ret.val = <<"B", "R", "C", "A", "1", ",", "i", "s", "o", "f", "o", "r">>

\* _format_gene_name returned for scenario C
C6_Witness == ScenarioC /\ fig.ret.given /\ Len(fig.ret.val) = 12

(***************************************************************************)
(* C7                                                                      *)
(***************************************************************************)
\* C7: formatting a formatted gene name again, with the same max_length,
\* leaves it unchanged (max_length is a length limit: the calls of InitFormat
\* pass 0 or more).
C7_FormatIsIdempotent ==
    (Done /\ call.fn = "_format_gene_name") =>
        FormatGeneName(fig.ret.val, call.max_length) = fig.ret.val

\* a name that was cut at its comma and then cut again to max_length
C7_Witness ==
    /\ Done
    /\ call.fn = "_format_gene_name"
    /\ fig.log = <<"debug">>
    /\ Len(fig.ret.val) = call.max_length
    /\ call.max_length > 0
    /\ Len(fig.ret.val) < Find(RemoveQuotes(RemoveSpaces(call.gene_name)), ",", CommaFrom)

(***************************************************************************)
(* C8                                                                      *)
(***************************************************************************)
\* a state vector as long as no other, or as the declared sample list
InvalidShape ==
    \/ /\ call.fn = "hinton"
       /\ \/ \E m \in 1..Len(call.data) : Len(call.data[m]) # Len(call.data[1])
          \/ /\ call.row_labels.given
             /\ \E m \in 1..Len(call.data) : Len(call.data[m]) # Len(call.row_labels.val)
    \/ /\ call.fn = "clustered_table"
       /\ \E m \in 1..Len(call.data) : Len(call.data[m]) # Len(call.sample_names)

\* C8: a call whose state vectors differ in length from each other or from the
\* declared sample list raises, and leaves no cell, no label and no file.
C8_InvalidShapesAreRejected ==
    (Done /\ call.fn \in {"hinton", "clustered_table"} /\ InvalidShape) =>
        /\ fig.raised
        /\ fig.cells = {} /\ fig.row_texts = {} /\ fig.col_texts = {}
        /\ fig.saved = {}

(***************************************************************************)
(* C9                                                                      *)
(***************************************************************************)
\* C9: create_incompatible_mp_table handed a phylogeny of none of the three
\* supported classes returns None without raising, logs a warning or an error,
\* creates no figure and writes no file; handed one of the three classes it
\* writes the pdf and the png.
C9_UnsupportedPhylogenyIsSkipped ==
    (Done /\ call.fn = "create_incompatible_mp_table") =>
        IF call.phylogeny.kind \in {"CompatiblePhylogeny", "ResolvedPhylogeny", "MaxLHPhylogeny"}
        THEN fig.saved = {"pdf", "png"} /\ fig.created /\ ~fig.raised
        ELSE /\ ~fig.raised
             /\ ~fig.ret.given
             /\ Len(fig.log) > 0
             /\ \A i \in 1..Len(fig.log) : fig.log[i] \in {"warning", "error"}
             /\ ~fig.created
             /\ fig.cells = {} /\ fig.row_texts = {} /\ fig.col_texts = {}
             /\ fig.saved = {}

(***************************************************************************)
(* C10                                                                     *)
(***************************************************************************)
\* the colours the claim fixes for the three state classes
StatedColor(maf) ==
    IF maf > 0 THEN "blue"
    ELSE IF maf = POS_UNKNOWN \/ maf = NEG_UNKNOWN THEN "(0.9, 0.75, 0.75)"
    ELSE "(1.0, 0.3, 0.3)"

\* C10: in every table renderer a cell's colour is the colour of its state
\* class (present, ambiguous, absent), the same in all three renderers, and
\* two cells have the same colour exactly when their states are of one class.
C10_ColorByStateClass ==
    DoneTable({"hinton", "create_incompatible_mp_table", "clustered_table"}) =>
        \A c \in fig.cells :
            /\ c.color = StatedColor(At(At(call.data, c.mut_idx), c.sa_idx))
            /\ \A d \in fig.cells :
                   (c.color = d.color)
                   <=> (Rank(At(At(call.data, c.mut_idx), c.sa_idx))
                        = Rank(At(At(call.data, d.mut_idx), d.sa_idx)))

\* clustered_table drew a present, an absent and both kinds of ambiguous cell
C10_Witness ==
    /\ DoneTable({"clustered_table"})
    /\ \A v \in StateValues :
           \E c \in fig.cells : At(At(call.data, c.mut_idx), c.sa_idx) = v
    /\ Cardinality({c.color : c \in fig.cells}) = 3

(***************************************************************************)
(* C11                                                                     *)
(***************************************************************************)
\* the supporting reads and the coverage of the cell a rectangle stands for
ReadsOf(r) == MpRead(call.mut_reads, call, r.mut_idx, r.sa_idx)

CoverageOf(r) == MpRead(call.phred_coverage, call, r.mut_idx, r.sa_idx)

RatMin(a, b) == IF RatLess(b, a) THEN b ELSE a

\* the intensity as the specification words it
StatedMafIntensity(reads, cov) ==
    IF cov > 0 THEN RatMin(Rat(1, 1), Rat(2 * reads, cov)) ELSE Rat(0, 1)

\* C11: every variant-fraction rectangle of create_incompatible_mp_table is
\* filled with the intensity min(1.0, 2 * reads / coverage) when the coverage
\* is positive and 0.0 when it is 0; a fraction of 0 gives 0.0, fractions of
\* 0.5 and 0.9 give 1.0, and every intensity lies in [0, 1].
C11_MafIntensity ==
    (DoneTable({"create_incompatible_mp_table"}) /\ fig.created) =>
        \A r \in fig.maf_rects :
            /\ r.color.value = StatedMafIntensity(ReadsOf(r), CoverageOf(r))
            /\ ~RatLess(r.color.value, Rat(0, 1)) /\ ~RatLess(Rat(1, 1), r.color.value)
            /\ (CoverageOf(r) > 0 /\ ReadsOf(r) = 0) => r.color.value = Rat(0, 1)
            /\ (CoverageOf(r) > 0 /\ 2 * ReadsOf(r) = CoverageOf(r))
                   => r.color.value = Rat(1, 1)
            /\ (10 * ReadsOf(r) = 9 * CoverageOf(r) /\ CoverageOf(r) > 0)
                   => r.color.value = Rat(1, 1)
            /\ CoverageOf(r) = 0 => r.color.value = Rat(0, 1)

\* a table with a cell at a fraction of 0.9, next to a cell without coverage
\* that still has supporting reads, the dictionaries holding the samples in
\* the opposite order of patient.sample_names
C11_Witness ==
    /\ DoneTable({"create_incompatible_mp_table"})
    /\ Keys(Get(call.mut_reads, "m0")) = Reversed(call.sample_names)
    /\ \E r, q \in fig.maf_rects :
         /\ ReadsOf(r) = 9 /\ CoverageOf(r) = 10 /\ r.color.value = Rat(1, 1)
         /\ ReadsOf(q) > 0 /\ CoverageOf(q) = 0 /\ q.color.value = Rat(0, 1)

(***************************************************************************)
(* C12                                                                     *)
(***************************************************************************)
\* 1000 ^ v for a value v of the coverage scale: 1000 ^ (log10(c) / 3) = c,
\* 1000 ^ 0 = 1 and 1000 ^ 1 = 1000.  x |-> 1000 ^ x is strictly increasing,
\* so two values compare as their images do.
Antilog(v) == IF v.kind = "log10" THEN v.num ELSE (10 ^ 3) ^ (v.num \div v.den)

RealLeq(a, b) == Antilog(a) <= Antilog(b)

RealEq(a, b) == Antilog(a) = Antilog(b)

\* C12: the coverage intensity of create_incompatible_mp_table never decreases
\* when the coverage grows, lies in [0, 1], is 0.0 at coverages 0 and 1, 1.0
\* at coverages 1000 and 10000, and log10(coverage) / 3 in between.
C12_CovIntensity ==
    (DoneTable({"create_incompatible_mp_table"}) /\ fig.created) =>
        /\ \A r, q \in fig.cov_rects :
               CoverageOf(r) <= CoverageOf(q) => RealLeq(r.color.value, q.color.value)
        /\ \A r \in fig.cov_rects :
               /\ RealLeq(Rat(0, 1), r.color.value) /\ RealLeq(r.color.value, Rat(1, 1))
               /\ CoverageOf(r) \in {0, 1} => RealEq(r.color.value, Rat(0, 1))
               /\ CoverageOf(r) \in {1000, 10000} => RealEq(r.color.value, Rat(1, 1))
               /\ (1 < CoverageOf(r) /\ CoverageOf(r) < 1000)
                      => r.color.value = Log10Over(CoverageOf(r), 3)

\* a table with a cell just below the saturation and a cell far above it
C12_Witness ==
    /\ DoneTable({"create_incompatible_mp_table"})
    /\ \E r, q \in fig.cov_rects :
         /\ CoverageOf(r) = 999 /\ r.color.value = Log10Over(999, 3)
         /\ CoverageOf(q) = 10000 /\ q.color.value = Rat(1, 1)

(***************************************************************************)
(* C13                                                                     *)
(***************************************************************************)
\* the annotation of the call lists sample sa_idx among the false positives
\* (false negatives) of mutation mut_idx
IsFalsePositive(mut_idx, sa_idx) ==
    /\ call.phylogeny.kind = "MaxLHPhylogeny"
    /\ \E e \in 1..Len(call.phylogeny.false_positives) :
          /\ call.phylogeny.false_positives[e].key = mut_idx
          /\ sa_idx \in call.phylogeny.false_positives[e].val

IsFalseNegative(mut_idx, sa_idx) ==
    /\ call.phylogeny.kind = "MaxLHPhylogeny"
    /\ \E e \in 1..Len(call.phylogeny.false_negatives) :
          /\ call.phylogeny.false_negatives[e].key = mut_idx
          /\ sa_idx \in call.phylogeny.false_negatives[e].val

\* the overlays drawn over the box c
OverlaysOn(c) == {o \in fig.overlays : o.x = c.x /\ o.y = c.y}

\* C13: in create_incompatible_mp_table a box carries an overlay exactly when
\* the MaxLHPhylogeny lists its sample among the false positives or the false
\* negatives of its mutation; the overlay of a false positive has the absent
\* colour, that of a false negative the present colour (a pair listed as both
\* is drawn as a false positive); no box carries two overlays, every overlay
\* lies on a box, and no other phylogeny class gives any overlay.
C13_OverlayIffAnnotated ==
    (DoneTable({"create_incompatible_mp_table"}) /\ fig.created) =>
        /\ call.phylogeny.kind # "MaxLHPhylogeny" => fig.overlays = {}
        /\ \A o \in fig.overlays : \E c \in fig.cells : o \in OverlaysOn(c)
        /\ \A c \in fig.cells :
              /\ Cardinality(OverlaysOn(c)) <= 1
              /\ OverlaysOn(c) # {}
                    <=> (IsFalsePositive(c.mut_idx, c.sa_idx)
                         \/ IsFalseNegative(c.mut_idx, c.sa_idx))
              /\ \A o \in OverlaysOn(c) :
                    /\ IsFalsePositive(c.mut_idx, c.sa_idx) => o.color = MpAbsentColor
                    /\ (IsFalseNegative(c.mut_idx, c.sa_idx)
                        /\ ~IsFalsePositive(c.mut_idx, c.sa_idx)) => o.color = MpPresentColor

\* a table with a false positive and a false negative
C13_Witness ==
    /\ DoneTable({"create_incompatible_mp_table"})
    /\ \E c, d \in fig.cells :
         /\ IsFalsePositive(c.mut_idx, c.sa_idx)
         /\ \E o \in OverlaysOn(c) : o.color = MpAbsentColor
         /\ IsFalseNegative(d.mut_idx, d.sa_idx) /\ ~IsFalsePositive(d.mut_idx, d.sa_idx)
         /\ \E o \in OverlaysOn(d) : o.color = MpPresentColor

(***************************************************************************)
(* C14                                                                     *)
(***************************************************************************)
\* the height of a cell and the distance between two rows, in the tenths the
\* coordinates are kept in
CellHeight ==
    10 * (CASE call.fn = "hinton" -> HintonHeight
            [] call.fn = "clustered_table" -> ClusteredHeight
            [] OTHER -> MpHeight)

RowPitch ==
    10 * (CASE call.fn = "hinton" -> HintonHeight + HintonYSpacing
            [] call.fn = "clustered_table" -> ClusteredHeight + ClusteredYSpacing
            [] OTHER -> MpHeight + MpYSpacing)

\* the number of samples of the mutation a cell belongs to
SamplesOf(c) == Len(At(call.data, c.mut_idx))

\* C14: in every table renderer the cell at position p of a vector of S
\* samples has the row coordinate (height + y_spacing) * (S - p - 1); among
\* vectors of one length a smaller position lies higher and two positions
\* are at least a cell height apart; and when there is one row label per
\* sample, the label of position p is written inside the row of position p.
C14_RowCoordinates ==
    DoneTable({"hinton", "create_incompatible_mp_table", "clustered_table"}) =>
        /\ \A c \in fig.cells : c.y = RowPitch * (SamplesOf(c) - c.row - 1)
        /\ \A c, d \in fig.cells :
              (SamplesOf(c) = SamplesOf(d) /\ c.row < d.row)
                  => (c.y > d.y /\ c.y - d.y >= CellHeight)
        /\ \A c \in fig.cells :
              (call.row_labels.given /\ Len(call.row_labels.val) = SamplesOf(c))
                  => \E t \in fig.row_texts :
                         /\ t.row = c.row
                         /\ c.y <= t.y /\ t.y < c.y + CellHeight
                         /\ \A u \in fig.row_texts : u.row = c.row => u = t

\* a labelled table of at least two rows
C14_Witness ==
    /\ DoneTable({"hinton", "create_incompatible_mp_table", "clustered_table"})
    /\ call.row_labels.given
    /\ \E c, d \in fig.cells :
         /\ c.x_pos = d.x_pos /\ c.row = 0 /\ d.row = 1
         /\ Len(call.row_labels.val) = SamplesOf(c)
         /\ \E t, u \in fig.row_texts : t.row = 0 /\ u.row = 1 /\ t.y > u.y

(***************************************************************************)
(* C15                                                                     *)
(***************************************************************************)
\* the rank class a cell colour shows: present 2, ambiguous 1, absent 0
ColourRank(color) ==
    IF color = "blue" THEN 2 ELSE IF color = "(0.9, 0.75, 0.75)" THEN 1 ELSE 0

\* the cells drawn in column x
ColumnCells(x) == {c \in fig.cells : c.x_pos = x}

\* the rank classes of column x as they are seen, read from the top
DrawnRanks(x) ==
    [n \in 1..Cardinality(ColumnCells(x)) |->
         ColourRank((CHOOSE c \in ColumnCells(x) :
                         Cardinality({d \in ColumnCells(x) : d.y > c.y}) = n - 1).color)]

\* lexicographic order of two sequences of integers of one length
LexLess(v, w) ==
    \E i \in 1..Len(v) : (\A j \in 1..(i - 1) : v[j] = w[j]) /\ v[i] < w[i]

\* every displayed mutation is displayed once and all vectors have one length
OnceAndRectangular ==
    /\ \A k \in 1..Len(DisplayedList) : Occurrences(DisplayedList, DisplayedList[k]) = 1
    /\ \A m \in 1..Len(call.data) : Len(call.data[m]) = Len(call.data[1])

\* C15: in a table of hinton or clustered_table whose mutations are each
\* displayed once, the top cell of every column shows the sample that weighs
\* most in the priority, and from left to right the columns, read from the
\* top as rank classes, never increase lexicographically.
C15_ColumnsLexicographic ==
    (DoneTable({"hinton", "clustered_table"}) /\ OnceAndRectangular) =>
        /\ \A c \in fig.cells :
              c.sa_idx = EffectiveSample(0)
                  <=> (\A d \in ColumnCells(c.x_pos) : d.y <= c.y)
        /\ \A x, x2 \in Columns :
              x < x2 => ~LexLess(DrawnRanks(x), DrawnRanks(x2))

\* a clustered table whose rows are not in the declared order and whose two
\* columns first differ in the second row
C15_Witness ==
    /\ DoneTable({"clustered_table"})
    /\ OnceAndRectangular
    /\ Reversed(call.leaves) # Range(Len(call.leaves))
    /\ \E x, x2 \in Columns :
         /\ x < x2
         /\ Len(DrawnRanks(x)) >= 2
         /\ DrawnRanks(x)[1] = DrawnRanks(x2)[1]
         /\ DrawnRanks(x)[2] > DrawnRanks(x2)[2]

(***************************************************************************)
(* C16                                                                     *)
(***************************************************************************)
\* the distinct mutation indices selected for display
SelectedMutations == {DisplayedList[k] : k \in 1..Len(DisplayedList)}

\* C16: create_incompatible_mp_table draws as many columns as there are
\* distinct mutation indices selected for display, for every supported class
\* of phylogeny, a MaxLHPhylogeny that lists one mutation among the false
\* positives and among the false negatives included.
C16_OneColumnPerMutation ==
    (DoneTable({"create_incompatible_mp_table"}) /\ fig.created) =>
        Cardinality(Columns) = Cardinality(SelectedMutations)

====
